---- MODULE Spec2Model ----
(***************************************************************************)
(* A model of the rtpproxy relay engine (src/main.c): the session table    *)
(* and poll set, the control-command processor, the packet forwarder, the  *)
(* prompt-player scheduler and the housekeeper, driven by the main loop.   *)
(***************************************************************************)
EXTENDS Integers, Sequences, FiniteSets, TLC

(* ---------------------------------------------------------------------- *)
(* Configuration (init_config) and the bounds of the model                 *)
(* ---------------------------------------------------------------------- *)

\* -m / -M / -T command line values
port_min == 2
port_max == 6
max_ttl == 1

\* caps on the program's unbounded counters and on the environment's inputs
MaxCreated == 2
MaxServers == 1
MaxPlayers == 2
MaxListed == 4
MaxPkts == 2
MaxBurst == 1
MaxQueued == 1

\* number of slots malloc'ed for sessions[], pfds[] and rtp_servers[]
Capacity == ((port_max - port_min + 1) * 2) + 1

\* the same for the port range the configuration c holds
Slots(c) == ((c.port_max - c.port_min + 1) * 2) + 1

\* the loop of rxmit_packets drains at most this many datagrams per socket
NDRAIN == 5

NULL == 0
Sides == {0, 1}

\* every RTP/RTCP pair holds at least one even/odd port pair of the range
NObj == 2 * (((port_max - port_min) \div 2) + 1)
Ptrs == 1 .. NObj

(* ---------------------------------------------------------------------- *)
(* Values                                                                   *)
(* ---------------------------------------------------------------------- *)

\* a struct sockaddr: host and port; NoAddr is the NULL pointer
NoAddr == [h |-> 0, p |-> 0]
Sa(h, p) == [h |-> h, p |-> p]

\* ishostseq(): the hosts (not the ports) of two addresses are equal
ishostseq(a, b) == a.h = b.h

\* NOT(x)
NOT(x) == IF x = 0 THEN 1 ELSE 0

\* tags are character strings
NoTag == << >>
TagA == << "a" >>
TagB == << "b" >>
TagA1 == << "a", ";", "1" >>
TagA2 == << "a", ";", "2" >>

\* compare_session_tags(tag1, tag0, &medianum): 1 full match, 2 match with
\* a ";N" media-number suffix, 0 otherwise
compare_session_tags(tag1, tag0) ==
    LET len0 == Len(tag0) IN
    IF Len(tag1) >= len0 /\ SubSeq(tag1, 1, len0) = tag0
    THEN IF Len(tag1) > len0 /\ tag1[len0 + 1] = ";" THEN 2
         ELSE IF Len(tag1) = len0 THEN 1
         ELSE 0
    ELSE 0

\* struct rtp_resizer, as far as main.c reads it, and the number of packets
\* the resizer has taken ownership of and not yet given back
ZeroResizer == [output_nsamples |-> 0, queued |-> 0]

\* a struct rtpp_session after memset(sp, 0, sizeof(*sp))
ZeroSession ==
    [ inuse      |-> TRUE,
      call_id    |-> "",
      tag        |-> NoTag,
      fds        |-> [i \in Sides |-> 0],
      ports      |-> [i \in Sides |-> 0],
      sidx       |-> [i \in Sides |-> 0],
      addr       |-> [i \in Sides |-> NoAddr],
      asymmetric |-> [i \in Sides |-> 0],
      canupdate  |-> [i \in Sides |-> 0],
      pcount     |-> [i \in 0 .. 3 |-> 0],
      ttl        |-> 0,
      strong     |-> 0,
      weak       |-> [i \in Sides |-> 0],
      complete   |-> 0,
      rtps       |-> [i \in Sides |-> 0],
      sridx      |-> 0,
      rtp        |-> NULL,
      rtcp       |-> NULL,
      resizers   |-> [i \in Sides |-> ZeroResizer] ]

\* a chunk of the heap that is not allocated
FreeObj == [ZeroSession EXCEPT !.inuse = FALSE]

VARIABLES
    cf,         \* struct cfg: sessions, pfds, nsessions, rtp_servers,
                \* rtp_nsessions, nextport, sessions_created
    mem,        \* the heap: pointer -> struct rtpp_session
    socks,      \* local ports with an open, bound socket
    pc,         \* position of main()'s loop
    fault,      \* "none", or how the process stopped making progress
    lastCmd,    \* what the last handle_command read, replied and touched
    lastPass,   \* what the last process_rtp pass received and sent
    owed        \* the U commands no D command has matched yet

vars == << cf, mem, socks, pc, fault, lastCmd, lastPass, owed >>

\* the program state the handlers work on
\* (oob: a store went past the malloc'ed end of sessions[] / pfds[])
\* (busy: the ports other processes hold, bind() fails on them with
\* EADDRINUSE; errs: the ports bind() fails on with another error; probes:
\* the ports create_twinlistener has been called with, in order)
St(c, m, s) ==
    [cf |-> c, mem |-> m, socks |-> s, oob |-> FALSE,
     busy |-> {}, errs |-> {}, probes |-> << >>]

\* GET_RTP(sp)
GET_RTP(m, sp) == IF m[sp].rtp # NULL THEN m[sp].rtp ELSE sp

(* ---------------------------------------------------------------------- *)
(* Session table and poll set                                               *)
(* ---------------------------------------------------------------------- *)

\* append_session(cf, sp, index)
append_session(S, sp, index) ==
    IF S.mem[sp].fds[index] # -1
    THEN LET n == S.cf.nsessions IN
         IF n >= Slots(S.cf)
         THEN [S EXCEPT !.oob = TRUE,
                        !.cf.nsessions = n + 1,
                        !.mem[sp].sidx[index] = n]
         ELSE [S EXCEPT !.cf.sessions[n] = sp,
                        !.cf.pfds[n] = S.mem[sp].fds[index],
                        !.cf.nsessions = n + 1,
                        !.mem[sp].sidx[index] = n]
    ELSE [S EXCEPT !.mem[sp].sidx[index] = -1]

\* append_server(cf, sp)
append_server(S, sp) ==
    IF S.mem[sp].rtps[0] # NULL \/ S.mem[sp].rtps[1] # NULL
    THEN IF S.mem[sp].sridx = -1
         THEN LET n == S.cf.rtp_nsessions IN
              IF n >= Slots(S.cf)
              THEN [S EXCEPT !.oob = TRUE,
                             !.cf.rtp_nsessions = n + 1,
                             !.mem[sp].sridx = n]
              ELSE [S EXCEPT !.cf.rtp_servers[n] = sp,
                             !.cf.rtp_nsessions = n + 1,
                             !.mem[sp].sridx = n]
         ELSE S
    ELSE [S EXCEPT !.mem[sp].sridx = -1]

\* the body of remove_session's loop for one descriptor of session p
CloseSide(S, p, i) ==
    IF S.mem[p].fds[i] # -1
    THEN [S EXCEPT !.socks = @ \ {S.mem[p].fds[i]},
                   !.cf.sessions[S.mem[p].sidx[i]] = NULL,
                   !.cf.pfds[S.mem[p].sidx[i]] = -1]
    ELSE S

\* the assert()s of remove_session hold for descriptor i of session p
SideAsserts(S, p, i) ==
    S.mem[p].fds[i] # -1 =>
        /\ S.mem[p].sidx[i] \in 0 .. (Slots(S.cf) - 1)
        /\ S.cf.sessions[S.mem[p].sidx[i]] = p
        /\ S.cf.pfds[S.mem[p].sidx[i]] = S.mem[p].fds[i]

\* one round i of the for loop of remove_session
RemoveRound(S, sp, i) ==
    LET r  == S.mem[sp].rtcp
        S1 == CloseSide(S, sp, i)
        S2 == CloseSide(S1, r, i)
    IN  IF S.mem[sp].rtps[i] # NULL
        THEN [S2 EXCEPT !.cf.rtp_servers[S.mem[sp].sridx] = NULL]
        ELSE S2

\* remove_session(cf, sp): sp is the RTP session of the pair
remove_session(S, sp) ==
    LET r  == S.mem[sp].rtcp
        S2 == RemoveRound(RemoveRound(S, sp, 0), sp, 1)
    IN  [S2 EXCEPT !.mem[sp] = FreeObj, !.mem[r] = FreeObj]

\* every assert() of remove_session(cf, sp) holds
RemoveAsserts(S, sp) ==
    \A i \in Sides : SideAsserts(S, sp, i) /\ SideAsserts(S, S.mem[sp].rtcp, i)

(* ---------------------------------------------------------------------- *)
(* Port allocator                                                           *)
(* ---------------------------------------------------------------------- *)

\* a twin listener that is content with the RTP port
create_twinlistener_half(S, port, oserr) ==
    LET inuse == S.socks \cup S.busy IN
    IF oserr THEN [rval |-> -1, S |-> S]
    ELSE IF port \in inuse THEN [rval |-> -2, S |-> S]
    ELSE IF port \in S.errs THEN [rval |-> -1, S |-> S]
    ELSE [rval |-> 0, S |-> [S EXCEPT !.socks = @ \cup {port, port + 1}]]

\* create_twinlistener(cf, ia, port, fds): 0 and the two sockets bound to
\* port and port + 1, -2 when one of them is in use, -1 on another error
create_twinlistener(S, port, oserr) ==
    LET inuse == S.socks \cup S.busy IN
    IF oserr THEN [rval |-> -1, S |-> S]
    ELSE IF port \in inuse THEN [rval |-> -2, S |-> S]
    ELSE IF port \in S.errs THEN [rval |-> -1, S |-> S]
    ELSE IF (port + 1) \in inuse THEN [rval |-> -2, S |-> S]
    ELSE IF (port + 1) \in S.errs THEN [rval |-> -1, S |-> S]
    ELSE [rval |-> 0, S |-> [S EXCEPT !.socks = @ \cup {port, port + 1}]]

\* the for loop of create_listener, entered with *port = port
RECURSIVE ListenerLoop(_, _, _, _)
ListenerLoop(S0, startport, port, oserr) ==
    LET S == [S0 EXCEPT !.probes = Append(@, port)]
        t == create_twinlistener(S, port, oserr) IN
    IF t.rval = 0 THEN [rval |-> 0, port |-> port, S |-> t.S]
    ELSE IF t.rval = -1 THEN [rval |-> -1, port |-> port, S |-> S]
    ELSE LET nxt == (IF port >= S.cf.port_max THEN S.cf.port_min - 2 ELSE port) + 2 IN
         IF nxt = startport THEN [rval |-> -1, port |-> nxt, S |-> S]
         ELSE ListenerLoop(S, startport, nxt, oserr)

\* create_listener(cf, ia, startport, &port, fds)
create_listener(S, startport, oserr) ==
    LET sp0 == IF startport < S.cf.port_min \/ startport > S.cf.port_max
               THEN S.cf.port_min ELSE startport
    IN  ListenerLoop(S, sp0, sp0, oserr)

(* ---------------------------------------------------------------------- *)
(* Control commands                                                         *)
(* ---------------------------------------------------------------------- *)

\* CPROTOVER, the first entry of proto_caps[]
CPROTOVER == 20040107

\* a modifier character of the first token; n is the number that follows Z
Mod(c, n) == [c |-> c, n |-> n]

\* the for loop over argv[0] + 1 (the command modifiers); bmode is 0
RECURSIVE ParseMods(_, _)
ParseMods(mods, acc) ==
    IF mods = << >> \/ acc.err THEN acc
    ELSE LET m == Head(mods) IN
         ParseMods(Tail(mods),
            CASE m.c = "A" -> [acc EXCEPT !.asymmetric = 1]
              [] m.c = "S" -> [acc EXCEPT !.asymmetric = 0]
              [] m.c = "W" -> [acc EXCEPT !.weak = 1]
              [] m.c = "Z" -> IF (m.n \div 10) * 80 <= 0
                              THEN [acc EXCEPT !.err = TRUE]
                              ELSE [acc EXCEPT !.nsamples = (m.n \div 10) * 80]
              [] OTHER     -> acc)

NoMods == [asymmetric |-> 0, weak |-> 0, nsamples |-> -1, err |-> FALSE]

\* a reply written by doreply()
Reply(t, v) == [t |-> t, v |-> v]

\* what handle_command hands back: the state it leaves, the replies it sent,
\* the sessions it matched, and how it ended
Res(S, replies, touched, spa, end) ==
    [S |-> S, replies |-> replies, touched |-> touched, spa |-> spa, end |-> end]

\* the holds of session sp
Holds(S, sp) == [strong |-> S.mem[sp].strong, weak |-> S.mem[sp].weak]

\* one session a command matched, on side i: the holds it had in S0, the
\* holds the command left it in S, removed or not
Touch(S0, S, sp, i, removed) ==
    [sp |-> sp, side |-> i, was |-> Holds(S0, sp),
     strong |-> S.mem[sp].strong, weak |-> S.mem[sp].weak, removed |-> removed]

\* a stop that leaves the session in the scheduler list
StopPlayer_stale(S, spa, i) ==
    IF S.mem[spa].rtps[i] # NULL
    THEN LET S1 == [S EXCEPT !.mem[spa].rtps[i] = NULL] IN
         IF S1.mem[spa].rtps[0] = NULL /\ S1.mem[spa].rtps[1] = NULL
         THEN [S1 EXCEPT !.mem[spa].sridx = -1]
         ELSE S1
    ELSE S

\* lines 711-725: stop the player of side i of spa
StopPlayer(S, spa, i) ==
    IF S.mem[spa].rtps[i] # NULL
    THEN LET S1 == [S EXCEPT !.mem[spa].rtps[i] = NULL] IN
         IF S1.mem[spa].rtps[0] = NULL /\ S1.mem[spa].rtps[1] = NULL
         THEN [S1 EXCEPT !.cf.rtp_servers[S.mem[spa].sridx] = NULL,
                         !.mem[spa].sridx = -1]
         ELSE S1
    ELSE S

\* lines 727-747: the codecs loop of the P command
StartPlayer(S, spa, i, player_ok) ==
    IF player_ok
    THEN LET S1 == [S EXCEPT !.mem[spa].rtps[i] = 1] IN
         IF S1.mem[spa].sridx = -1 THEN append_server(S1, spa) ELSE S1
    ELSE [S EXCEPT !.mem[spa].rtps[i] = NULL]

\* a bind that records the RTP port for the RTCP twin as well
BindSide_sameport(S, spa, i, lport) ==
    LET r  == S.mem[spa].rtcp
        S1 == [S EXCEPT !.cf.nextport[0] = lport + 2,
                        !.mem[spa].fds[i] = lport,
                        !.mem[r].fds[i] = lport + 1,
                        !.mem[spa].ports[i] = lport,
                        !.mem[r].ports[i] = lport,
                        !.mem[spa].complete = 1,
                        !.mem[r].complete = 1]
    IN  append_session(append_session(S1, spa, i), r, i)

\* lines 765-783: bind side i of a matched session
BindSide(S, spa, i, lport) ==
    LET r  == S.mem[spa].rtcp
        S1 == [S EXCEPT !.cf.nextport[0] = lport + 2,
                        !.mem[spa].fds[i] = lport,
                        !.mem[r].fds[i] = lport + 1,
                        !.mem[spa].ports[i] = lport,
                        !.mem[r].ports[i] = lport + 1,
                        !.mem[spa].complete = 1,
                        !.mem[r].complete = 1]
    IN  append_session(append_session(S1, spa, i), r, i)

\* lines 784-791: take the hold and restart the session timer
HoldSide(S, spa, i, c) ==
    LET S1 == IF c.weak # 0 THEN [S EXCEPT !.mem[spa].weak[i] = 1]
              ELSE IF c.response = 0 THEN [S EXCEPT !.mem[spa].strong = 1]
              ELSE S
    IN  [S1 EXCEPT !.mem[spa].ttl = max_ttl]

\* a pre-fill that keeps an address once one is recorded
writeport_keepfirst(S, spa, pidx, c) ==
    IF pidx < 0 THEN S
    ELSE
    LET r  == S.mem[spa].rtcp
        S1 == IF c.ia[0] # NoAddr /\ c.ia[1] # NoAddr
              THEN LET T == IF S.mem[spa].addr[pidx] = NoAddr
                            THEN [S EXCEPT !.mem[spa].addr[pidx] = c.ia[0]]
                            ELSE S
                   IN  IF T.mem[r].addr[pidx] = NoAddr
                       THEN [T EXCEPT !.mem[r].addr[pidx] = c.ia[1]]
                       ELSE T
              ELSE S
        S2 == [S1 EXCEPT !.mem[spa].asymmetric[pidx] = c.asymmetric,
                         !.mem[r].asymmetric[pidx] = c.asymmetric,
                         !.mem[spa].canupdate[pidx] = NOT(c.asymmetric),
                         !.mem[r].canupdate[pidx] = NOT(c.asymmetric)]
    IN  IF c.request # 0 \/ c.response # 0
        THEN [S2 EXCEPT !.mem[spa].resizers[pidx].output_nsamples = c.nsamples]
        ELSE S2

\* lines 913-950 (writeport): pre-fill the address of side pidx of spa and
\* its RTCP twin from ia[0] / ia[1], set asymmetric, canupdate, the resizer
writeport(S, spa, pidx, c) ==
    IF pidx < 0 THEN S
    ELSE
    LET r  == S.mem[spa].rtcp
        S1 == IF c.ia[0] # NoAddr /\ c.ia[1] # NoAddr
              THEN LET T == IF S.mem[spa].addr[pidx] # c.ia[0]
                            THEN [S EXCEPT !.mem[spa].addr[pidx] = c.ia[0]]
                            ELSE S
                   IN  IF T.mem[r].addr[pidx] # c.ia[1]
                       THEN [T EXCEPT !.mem[r].addr[pidx] = c.ia[1]]
                       ELSE T
              ELSE S
        S2 == [S1 EXCEPT !.mem[spa].asymmetric[pidx] = c.asymmetric,
                         !.mem[r].asymmetric[pidx] = c.asymmetric,
                         !.mem[spa].canupdate[pidx] = NOT(c.asymmetric),
                         !.mem[r].canupdate[pidx] = NOT(c.asymmetric)]
    IN  IF c.request # 0 \/ c.response # 0
        THEN [S2 EXCEPT !.mem[spa].resizers[pidx].output_nsamples = c.nsamples]
        ELSE S2

\* lines 765-801: a U or L command found session spa, side i
MatchedUL(S, spa, i, c, touched) ==
    LET L  == create_listener(S, S.cf.nextport[0], c.oserr)
        S1 == IF S.mem[spa].fds[i] = -1 THEN BindSide(L.S, spa, i, L.port) ELSE S
        S2 == HoldSide(S1, spa, i, c)
        pidx == IF i = 0 THEN 1 ELSE 0
    IN  IF S.mem[spa].fds[i] = -1 /\ L.rval = -1
        THEN Res(L.S, << Reply("E", 7) >>, touched, spa, "goterror")
        ELSE Res(writeport(S2, spa, pidx, c),
                 << Reply("port", S2.mem[spa].ports[i]) >>,
                 Append(touched, Touch(S, S2, spa, i, FALSE)), spa, "writeport")

\* lines 681-684: a delete clears the hold it targets
ClearHold(S, spa, side, c) ==
    IF c.weak # 0 THEN [S EXCEPT !.mem[spa].weak[side] = 0]
    ELSE [S EXCEPT !.mem[spa].strong = 0]

\* a test for holds that looks at the strong one only
Held_strong(m) == m.strong # 0

\* line 689: the session is still held
Held(m) == m.strong # 0 \/ m.weak[0] # 0 \/ m.weak[1] # 0

\* lines 662-802: the for loop over the session table, at index i; seen holds
\* the (index, state) pairs the loop has been at, so that returning to one of
\* them is the loop running for ever
RECURSIVE SessionScan(_, _, _, _, _, _)
SessionScan(S, c, i, ndeleted, touched, seen) ==
    IF i >= S.cf.nsessions THEN Res(S, << >>, touched, NULL,
                                    IF ndeleted # 0 THEN "deleted" ELSE "notfound")
    ELSE IF << i, S >> \in seen THEN Res(S, << >>, touched, NULL, "loops")
    ELSE
    LET spa   == S.cf.sessions[i]
        seen1 == seen \cup { << i, S >> }
    IN
    IF spa = NULL THEN SessionScan(S, c, i + 1, ndeleted, touched, seen1)
    ELSE IF \/ S.mem[spa].sidx[0] # i
            \/ S.mem[spa].rtcp = NULL
            \/ S.mem[spa].call_id # c.call_id
    THEN SessionScan(S, c, i + 1, ndeleted, touched, seen1)
    ELSE
    LET cmprF == compare_session_tags(S.mem[spa].tag, c.from_tag)
        cmprT == IF c.to_tag # NoTag
                 THEN compare_session_tags(S.mem[spa].tag, c.to_tag) ELSE 0
        cmpr  == IF cmprF # 0 THEN cmprF ELSE cmprT
        \* the loop index i is overwritten with the side that matched
        side  == IF cmprF # 0 THEN (IF c.request = 0 THEN 1 ELSE 0)
                 ELSE (IF c.request = 0 THEN 0 ELSE 1)
    IN
    IF cmpr = 0 THEN SessionScan(S, c, i + 1, ndeleted, touched, seen1)
    ELSE IF c.delete # 0
    THEN LET S1 == ClearHold(S, spa, side, c) IN
             IF Held(S1.mem[spa])
             THEN SessionScan(S1, c, side + 1, ndeleted + 1,
                              Append(touched, Touch(S, S1, spa, side, FALSE)), seen1)
             ELSE IF ~RemoveAsserts(S1, spa)
             THEN Res(S1, << >>, touched, spa, "abort")
             ELSE IF cmpr = 2
             THEN SessionScan(remove_session(S1, spa), c, side + 1, ndeleted + 1,
                              Append(touched, Touch(S, S1, spa, side, TRUE)), seen1)
             ELSE Res(remove_session(S1, spa), << Reply("ok", 0) >>,
                      Append(touched, Touch(S, S1, spa, side, TRUE)), spa, "do_ok")
    ELSE IF c.play # 0 \/ c.noplay # 0
    THEN LET S1 == StopPlayer(S, spa, side) IN
         IF c.play = 0 THEN Res(S1, << Reply("ok", 0) >>, touched, spa, "do_ok")
         ELSE IF c.player_ok
         THEN Res(StartPlayer(S1, spa, side, TRUE), << Reply("ok", 0) >>,
                  touched, spa, "do_ok")
         ELSE Res(StartPlayer(S1, spa, side, FALSE), << Reply("E", 6) >>,
                  touched, spa, "goterror")
    ELSE IF c.record # 0
    \* cf->rdir is NULL: nothing is opened
    THEN Res(S, << Reply("ok", 0) >>, touched, spa, "do_ok")
    ELSE MatchedUL(S, spa, side, c, touched)

\* malloc(): the lowest free chunk of the heap
malloc(m) == CHOOSE p \in Ptrs : ~m[p].inuse /\ \A q \in Ptrs : ~m[q].inuse => p <= q

\* lines 860-906: fill in the new RTP session spa and its RTCP twin spb and
\* put their descriptors into the poll set
NewSessions(S, spa, spb, c, lport) ==
    LET a == [ZeroSession EXCEPT
                !.fds = [i \in Sides |-> IF i = 0 THEN lport ELSE -1],
                !.call_id = c.call_id,
                !.tag = c.from_tag,
                !.strong = IF c.weak # 0 THEN 0 ELSE 1,
                !.weak = [i \in Sides |-> IF i = 0 /\ c.weak # 0 THEN 1 ELSE 0],
                !.ports = [i \in Sides |-> IF i = 0 THEN lport ELSE 0],
                !.ttl = max_ttl,
                !.rtcp = spb,
                !.rtp = NULL,
                !.sridx = -1]
        b == [ZeroSession EXCEPT
                !.fds = [i \in Sides |-> IF i = 0 THEN lport + 1 ELSE -1],
                !.call_id = c.call_id,
                !.tag = c.from_tag,
                !.ports = [i \in Sides |-> IF i = 0 THEN lport + 1 ELSE 0],
                !.ttl = -1,
                !.rtcp = NULL,
                !.rtp = spa,
                !.sridx = -1]
        S1 == [S EXCEPT !.mem[spa] = a, !.mem[spb] = b]
        S2 == append_session(append_session(S1, spa, 0), spa, 1)
        S3 == append_session(append_session(S2, spb, 0), spb, 1)
    IN  [S3 EXCEPT !.cf.sessions_created = @ + 1]

\* a creation that moves the allocator cursor before it looks at the result
CreateSession_cursor(S, c, touched) ==
    LET L   == create_listener(S, S.cf.nextport[0], c.oserr)
        S1  == [L.S EXCEPT !.cf.nextport[0] = L.port + 2]
        spa == malloc(S1.mem)
        spb == malloc([S1.mem EXCEPT ![spa].inuse = TRUE])
    IN  IF L.rval = -1
        THEN Res(S1, << Reply("E", 10) >>, touched, NULL, "goterror")
        ELSE IF c.nomem = 12 /\ c.wild = "abort"
        THEN Res(S1, << >>, touched, NULL, "badfree")
        ELSE IF c.nomem \in 11 .. 14
        THEN Res([S1 EXCEPT !.socks = @ \ {L.port, L.port + 1}],
                 << Reply("E", c.nomem) >>, touched, NULL,
                 IF c.nomem = 12 /\ c.wild = "damage" THEN "badfree" ELSE "goterror")
        ELSE Res(writeport(NewSessions(S1, spa, spb, c, L.port), spa, 1, c),
                 << Reply("port", L.port) >>, touched, spa, "writeport")

\* a nomem exit that leaves the sockets it was given open
CreateSession_leak(S, c, touched) ==
    LET L   == create_listener(S, S.cf.nextport[0], c.oserr)
        S1  == [L.S EXCEPT !.cf.nextport[0] = L.port + 2]
        spa == malloc(S1.mem)
        spb == malloc([S1.mem EXCEPT ![spa].inuse = TRUE])
    IN  IF L.rval = -1
        THEN Res(L.S, << Reply("E", 10) >>, touched, NULL, "goterror")
        ELSE IF c.nomem = 12 /\ c.wild = "abort"
        THEN Res(S1, << >>, touched, NULL, "badfree")
        ELSE IF c.nomem \in 11 .. 14
        THEN Res(S1, << Reply("E", c.nomem) >>, touched, NULL,
                 IF c.nomem = 12 /\ c.wild = "damage" THEN "badfree" ELSE "goterror")
        ELSE Res(writeport(NewSessions(S1, spa, spb, c, L.port), spa, 1, c),
                 << Reply("port", L.port) >>, touched, spa, "writeport")

\* lines 833-911 and the nomem exit (lines 969-987): a U command that found
\* no session.  malloc() failing for spa, spb, call_id or tag (c.nomem 11
\* to 14) ends in nomem, which closes the two sockets; when spb fails the
\* exit reads spa->call_id before spa was zeroed: c.wild is what that read
\* yields, "null", or a pointer that free() aborts on ("abort"), or one
\* that free() takes and damages the heap with ("damage")
CreateSession(S, c, touched) ==
    LET L   == create_listener(S, S.cf.nextport[0], c.oserr)
        S1  == [L.S EXCEPT !.cf.nextport[0] = L.port + 2]
        spa == malloc(S1.mem)
        spb == malloc([S1.mem EXCEPT ![spa].inuse = TRUE])
    IN  IF L.rval = -1
        THEN Res(L.S, << Reply("E", 10) >>, touched, NULL, "goterror")
        ELSE IF c.nomem = 12 /\ c.wild = "abort"
        THEN Res(S1, << >>, touched, NULL, "badfree")
        ELSE IF c.nomem \in 11 .. 14
        THEN Res([S1 EXCEPT !.socks = @ \ {L.port, L.port + 1}],
                 << Reply("E", c.nomem) >>, touched, NULL,
                 IF c.nomem = 12 /\ c.wild = "damage" THEN "badfree" ELSE "goterror")
        ELSE Res(writeport(NewSessions(S1, spa, spb, c, L.port), spa, 1, c),
                 << Reply("port", L.port) >>, touched, spa, "writeport")

\* a failed request that is answered as if the session had been deleted
NotFound_ok(S, cmd, c, touched) ==
    IF cmd.verb = "L"
    THEN Res(S, << Reply("port", 0) >>, << >>, NULL, "writeport")
    ELSE IF cmd.verb # "U"
    THEN Res(S, << Reply("ok", 0) >>, << >>, NULL, "do_ok")
    ELSE CreateSession(S, c, touched)

\* lines 810-831: the scan matched no session: a lookup is answered with
\* port 0 (pidx = -1, goto writeport), the other requests with E8, and an
\* update goes on to create the session
NotFound(S, cmd, c, touched) ==
    IF cmd.verb = "L"
    THEN Res(S, << Reply("port", 0) >>, << >>, NULL, "writeport")
    ELSE IF cmd.verb # "U"
    THEN Res(S, << Reply("E", 8) >>, << >>, NULL, "goterror")
    ELSE CreateSession(S, c, touched)

\* the verbs that name a session
SessionVerbs == {"U", "L", "D", "P", "R", "S"}

\* lines 401-657: the flags, the modifiers and the address of a command cmd,
\* as the session scan uses them
Parsed(cmd) ==
    LET md == IF cmd.verb \in {"U", "L", "D"}
              THEN ParseMods(cmd.mods, NoMods) ELSE NoMods
        ok == cmd.verb # "D" /\ cmd.verb \in {"U", "L"} /\ cmd.addr # NoAddr
    IN  [ request    |-> IF cmd.verb = "U" THEN 1 ELSE 0,
          response   |-> IF cmd.verb = "L" THEN 1 ELSE 0,
          delete     |-> IF cmd.verb = "D" THEN 1 ELSE 0,
          play       |-> IF cmd.verb = "P" THEN 1 ELSE 0,
          record     |-> IF cmd.verb = "R" THEN 1 ELSE 0,
          noplay     |-> IF cmd.verb = "S" THEN 1 ELSE 0,
          call_id    |-> cmd.call_id,
          from_tag   |-> cmd.from_tag,
          to_tag     |-> cmd.to_tag,
          asymmetric |-> md.asymmetric,
          weak       |-> md.weak,
          nsamples   |-> md.nsamples,
          moderr     |-> md.err,
          ia         |-> [i \in Sides |-> IF ok THEN Sa(cmd.addr.h, cmd.addr.p + i)
                                          ELSE NoAddr],
          player_ok  |-> cmd.player_ok,
          oserr      |-> cmd.oserr,
          nomem      |-> cmd.nomem,
          wild       |-> cmd.wild ]

\* the first token of a datagram when it is no cookie
NoCookie == ""

\* lines 383-399: the cookie handle_command has parsed when it formats a
\* reply: the first token in datagram mode, given a second token follows
Cookie(S, cmd) ==
    IF S.cf.umode # 0 /\ cmd.verb # "" THEN cmd.cookie ELSE NoCookie

\* char buf[1024 * 8], and the room the I command wants left for a line
BufSize == 8192
Reserve == 512

\* the characters of the I header and of a session line next to the
\* call-id and the tag (addresses of four digits groups, small counters)
HeaderLen == 40
LineText == 100

\* strlen(call_id): the call-id "long" stands for one of LongIdLen characters
LongIdLen == 3800
CallIdLen(id) == IF id = "long" THEN LongIdLen ELSE 3

\* lines 497-519: the characters the line of the session m adds to buf
LineLen(m) == CallIdLen(m.call_id) + Len(m.tag) + LineText

\* the I command, lines 476-528: the for loop at index i with len
\* characters and n session lines in buf; head is the token buf begins
\* with, out the datagrams (or writes) doreply() has sent
RECURSIVE InfoLoop(_, _, _, _, _, _)
InfoLoop(S, i, len, n, head, out) ==
    IF i >= S.cf.nsessions
    THEN IF len > 0
         THEN [replies |-> Append(out.replies, Reply("info", n)),
               heads |-> Append(out.heads, head), oob |-> FALSE]
         ELSE [replies |-> out.replies, heads |-> out.heads, oob |-> FALSE]
    ELSE IF S.cf.sessions[i] = NULL \/ S.mem[S.cf.sessions[i]].sidx[0] # i
    THEN InfoLoop(S, i + 1, len, n, head, out)
    ELSE IF len + LineLen(S.mem[S.cf.sessions[i]]) >= BufSize
    THEN [replies |-> out.replies, heads |-> out.heads, oob |-> TRUE]
    ELSE IF len + LineLen(S.mem[S.cf.sessions[i]]) + Reserve > BufSize
    THEN InfoLoop(S, i + 1, 0, 0, NoCookie,
                  [replies |-> Append(out.replies, Reply("info", n + 1)),
                   heads |-> Append(out.heads, head)])
    ELSE InfoLoop(S, i + 1, len + LineLen(S.mem[S.cf.sessions[i]]), n + 1, head, out)

\* the I command: the header, a line per session side 0 slot, and what
\* doreply() sent
InfoDump(S, cmd) ==
    InfoLoop(S, 1,
             HeaderLen + (IF Cookie(S, cmd) # NoCookie THEN 3 ELSE 0),
             0, Cookie(S, cmd), [replies |-> << >>, heads |-> << >>])

\* the token each reply of the command begins with: the I dump as above,
\* every other reply is formatted with the cookie when there is one
\* (lines 455-458, 470-473, 954-958, 990-993, 995-1000)
Heads(S, cmd, replies) ==
    IF cmd.verb = "I"
    THEN InfoDump(S, cmd).heads
    ELSE [k \in 1 .. Len(replies) |-> Cookie(S, cmd)]

\* handle_command(cf, controlfd) on a command cmd that was read
handle_command(S, cmd) ==
    LET c   == Parsed(cmd)
        err(e) == Res(S, << Reply("E", e) >>, << >>, NULL, "goterror")
    IN
    IF cmd.verb = "" THEN err(0)
    ELSE IF cmd.verb = "VF"
    THEN IF cmd.nargs # "ok" THEN err(2)
         ELSE Res(S, << Reply("VF", IF cmd.known THEN 1 ELSE 0) >>, << >>, NULL, "doreply")
    ELSE IF cmd.verb = "V"
    THEN IF cmd.nargs # "ok" THEN err(2)
         ELSE Res(S, << Reply("V", CPROTOVER) >>, << >>, NULL, "doreply")
    ELSE IF cmd.verb = "I"
    THEN Res([S EXCEPT !.oob = InfoDump(S, cmd).oob], InfoDump(S, cmd).replies,
             << >>, NULL, "return")
    ELSE IF cmd.verb \notin SessionVerbs THEN err(3)
    ELSE IF cmd.verb \in {"U", "L", "P"} /\ cmd.nargs # "ok" THEN err(4)
    ELSE IF cmd.verb \in {"D", "R", "S"} /\ cmd.nargs # "ok" THEN err(1)
    \* D, R and S commands don't take any modifiers
    ELSE IF cmd.verb \in {"D", "R", "S"} /\ cmd.mods # << >> THEN err(1)
    ELSE IF c.moderr THEN err(1)
    ELSE IF c.ia[0] # NoAddr /\ c.nomem = 5 THEN err(5)
    ELSE
    LET R == SessionScan(S, c, 1, 0, << >>, {}) IN
    IF R.end = "deleted" THEN [R EXCEPT !.replies = << Reply("ok", 0) >>, !.end = "do_ok"]
    ELSE IF R.end # "notfound" THEN R
    ELSE NotFound(R.S, cmd, c, R.touched)

(* ---------------------------------------------------------------------- *)
(* Housekeeper                                                              *)
(* ---------------------------------------------------------------------- *)

\* alarmhandler(cf), the body of its for loop at index i; ok is FALSE once
\* an assert() of remove_session has failed
RECURSIVE alarmloop(_, _)
alarmvisit(S, i) ==
    IF i >= S.cf.nsessions THEN [S |-> S, ok |-> TRUE]
    ELSE LET sp == S.cf.sessions[i] IN
         IF sp = NULL THEN alarmloop(S, i + 1)
         ELSE IF S.mem[sp].rtcp = NULL \/ S.mem[sp].sidx[0] # i
         THEN alarmloop(S, i + 1)
         ELSE IF S.mem[sp].ttl = 0
         THEN IF RemoveAsserts(S, sp)
              THEN alarmloop(remove_session(S, sp), i + 1)
              ELSE [S |-> S, ok |-> FALSE]
         ELSE alarmloop([S EXCEPT !.mem[sp].ttl = @ - 1], i + 1)

\* the for loop from index i on: each iteration works on the tables as the
\* previous one left them
alarmloop(S0, i) == CHOOSE r \in { alarmvisit(S, i) : S \in {S0} } : TRUE

\* a housekeeper whose loop starts one slot too far
alarmhandler_from2(S) == alarmloop(S, 2)

alarmhandler(S) == alarmloop(S, 1)

(* ---------------------------------------------------------------------- *)
(* Packet forwarder                                                         *)
(* ---------------------------------------------------------------------- *)

\* the RTP session and the RTCP twin of the pair sp belongs to, as they are
PairOf(S, sp) ==
    LET a == GET_RTP(S.mem, sp) IN
    [rtp |-> S.mem[a], rtcp |-> IF S.mem[a].rtcp = NULL THEN FreeObj
                                ELSE S.mem[S.mem[a].rtcp]]

\* a datagram given to sendto(): the local port of the socket, the target
Sent(fd, to) == [fd |-> fd, to |-> to]

\* line 1436: the number of sendto() calls for one packet; in double mode
\* (-2) a packet below LBR_THRS is sent twice
Copies(c, small) == IF c.dmode # 0 /\ small THEN 2 ELSE 1

\* send_packet sending through the socket the packet came in on
send_packet_samesock(S, sp, ridx, small) ==
    LET a    == GET_RTP(S.mem, sp)
        S1   == [S EXCEPT !.mem[a].ttl = max_ttl]
        sidx == IF ridx = 0 THEN 1 ELSE 0
    IN  IF S1.mem[sp].addr[sidx] = NoAddr \/ S1.mem[a].rtps[sidx] # NULL
        THEN [S |-> [S1 EXCEPT !.mem[sp].pcount[3] = @ + 1], sent |-> << >>]
        ELSE [S |-> [S1 EXCEPT !.mem[sp].pcount[2] = @ + 1],
              sent |-> [k \in 1 .. Copies(S1.cf, small) |->
                          Sent(S1.mem[sp].fds[ridx], S1.mem[sp].addr[sidx])]]

\* a send_packet that counts every copy it sends
send_packet_percopy(S, sp, ridx, small) ==
    LET a    == GET_RTP(S.mem, sp)
        S1   == [S EXCEPT !.mem[a].ttl = max_ttl]
        sidx == IF ridx = 0 THEN 1 ELSE 0
    IN  IF S1.mem[sp].addr[sidx] = NoAddr \/ S1.mem[a].rtps[sidx] # NULL
        THEN [S |-> [S1 EXCEPT !.mem[sp].pcount[3] = @ + 1], sent |-> << >>]
        ELSE [S |-> [S1 EXCEPT !.mem[sp].pcount[2] = @ + Copies(S1.cf, small)],
              sent |-> [k \in 1 .. Copies(S1.cf, small) |->
                          Sent(S1.mem[sp].fds[sidx], S1.mem[sp].addr[sidx])]]

\* send_packet(cf, sp, ridx, packet); small is packet->size < LBR_THRS
send_packet(S, sp, ridx, small) ==
    LET a    == GET_RTP(S.mem, sp)
        S1   == [S EXCEPT !.mem[a].ttl = max_ttl]
        sidx == IF ridx = 0 THEN 1 ELSE 0
    IN  IF S1.mem[sp].addr[sidx] = NoAddr \/ S1.mem[a].rtps[sidx] # NULL
        THEN [S |-> [S1 EXCEPT !.mem[sp].pcount[3] = @ + 1], sent |-> << >>]
        ELSE [S |-> [S1 EXCEPT !.mem[sp].pcount[2] = @ + 1],
              sent |-> [k \in 1 .. Copies(S1.cf, small) |->
                          Sent(S1.mem[sp].fds[sidx], S1.mem[sp].addr[sidx])]]

\* rtp_resizer_enqueue(&resizers[ridx], &packet): the resizer may take the
\* packet (and NULL it out) or leave it to the caller
rtp_resizer_enqueue(S, sp, ridx, absorb) ==
    IF absorb THEN [S EXCEPT !.mem[sp].resizers[ridx].queued = @ + 1] ELSE S

\* what one packet did: the source, the verdict ("drop", "accept", "nomem"),
\* the pair before and after, the datagrams sent
RxEvent(sp, ridx, src, verdict, pre, post, sent) ==
    [kind |-> "rx", sp |-> sp, ridx |-> ridx, src |-> src, verdict |-> verdict,
     pre |-> pre, post |-> post, sent |-> sent]

GonePair == [rtp |-> FreeObj, rtcp |-> FreeObj]

\* a guess of the RTCP address that keeps the port of the RTP source
LearnAddr_sameport(S, sp, ridx, src) ==
    LET S1 == [S EXCEPT !.mem[sp].addr[ridx] = src,
                        !.mem[sp].canupdate[ridx] = 0]
        r  == S.mem[sp].rtcp
    IN  IF r # NULL /\ (S.mem[r].addr[ridx] = NoAddr
                        \/ ~ishostseq(S.mem[r].addr[ridx], src))
        THEN [S1 EXCEPT !.mem[r].addr[ridx] = src,
                        !.mem[r].canupdate[ridx] = NOT(S.mem[r].asymmetric[ridx])]
        ELSE S1

\* lines 1363-1405: the recorded address of side ridx is updated from src
LearnAddr(S, sp, ridx, src) ==
    LET S1 == [S EXCEPT !.mem[sp].addr[ridx] = src,
                        !.mem[sp].canupdate[ridx] = 0]
        r  == S.mem[sp].rtcp
    IN  IF r # NULL /\ (S.mem[r].addr[ridx] = NoAddr
                        \/ ~ishostseq(S.mem[r].addr[ridx], src))
        THEN [S1 EXCEPT !.mem[r].addr[ridx] = Sa(src.h, src.p + 1),
                        !.mem[r].canupdate[ridx] = NOT(S.mem[r].asymmetric[ridx])]
        ELSE S1

\* a receive path that forgets to count the packet
Counted_skip(S, sp, ridx) == S

\* lines 1346 and 1348: the packet is counted as received on side ridx
Counted(S, sp, ridx) == [S EXCEPT !.mem[sp].pcount[ridx] = @ + 1]

\* lines 1350-1358 and 1387-1395: malloc() failed, the session a is removed
RxFail(S, a, sp, ridx, src, pre) ==
    [S |-> IF RemoveAsserts(S, a) THEN remove_session(S, a) ELSE S,
     removed |-> TRUE, ok |-> RemoveAsserts(S, a),
     ev |-> RxEvent(sp, ridx, src, "nomem", pre, GonePair, << >>)]

\* the packet has been handled and the session is still there
RxDone(S, sent, sp, ridx, src, pre) ==
    [S |-> S, removed |-> FALSE, ok |-> TRUE,
     ev |-> RxEvent(sp, ridx, src, "accept", pre, PairOf(S, sp), sent)]

RxSent(F, sp, ridx, src, pre) == RxDone(F.S, F.sent, sp, ridx, src, pre)

\* lines 1407-1410: an enabled resizer is offered the packet; what it leaves
\* is given to send_packet
RxForward(S, sp, ridx, src, env, pre) ==
    IF S.mem[sp].resizers[ridx].output_nsamples > 0
    THEN IF env.absorb
         THEN RxDone(rtp_resizer_enqueue(S, sp, ridx, TRUE), << >>, sp, ridx, src, pre)
         ELSE RxSent(send_packet(rtp_resizer_enqueue(S, sp, ridx, FALSE), sp, ridx,
                                 env.small),
                     sp, ridx, src, pre)
    ELSE RxSent(send_packet(S, sp, ridx, env.small), sp, ridx, src, pre)

\* a check that compares the port of an asymmetric side as well
Unauthentic_exact(m, ridx, src) ==
    /\ m.addr[ridx] # NoAddr
    /\ IF m.asymmetric[ridx] = 0
       THEN m.addr[ridx] # src /\ m.canupdate[ridx] = 0
       ELSE m.addr[ridx] # src

\* a check that lets every packet through
Unauthentic_never(m, ridx, src) == FALSE

\* lines 1320-1345: the packet from src fails the check against the recorded
\* address of side ridx of session m
Unauthentic(m, ridx, src) ==
    /\ m.addr[ridx] # NoAddr
    /\ IF m.asymmetric[ridx] = 0
       THEN m.addr[ridx] # src /\ m.canupdate[ridx] = 0
       ELSE ~ishostseq(m.addr[ridx], src)

\* every accepted packet updates the recorded address
MustLearn_always(m, ridx, src) == TRUE

\* lines 1319-1361: i, the signal that the recorded address is to be updated
MustLearn(m, ridx, src) ==
    m.addr[ridx] = NoAddr \/ (m.asymmetric[ridx] = 0 /\ m.addr[ridx] # src)

\* a receive path on which a rejected datagram keeps the session alive
RxOne_keepalive(S, sp, ridx, src, env) ==
    LET m     == S.mem[sp]
        known == m.addr[ridx] # NoAddr
        drop  == Unauthentic(m, ridx, src)
        upd   == MustLearn(m, ridx, src)
        fail1 == ~known /\ env.nomem = "addr"
        fail2 == upd /\ m.rtcp # NULL /\ S.mem[m.rtcp].addr[ridx] = NoAddr
                 /\ env.nomem = "rtcp"
        T     == [S EXCEPT !.mem[GET_RTP(S.mem, sp)].ttl = max_ttl]
    IN  IF drop
        THEN [S |-> T, removed |-> FALSE, ok |-> TRUE,
              ev |-> RxEvent(sp, ridx, src, "drop", PairOf(S, sp), PairOf(T, sp), << >>)]
        ELSE IF fail1 \/ fail2
        THEN RxFail(Counted(S, sp, ridx), GET_RTP(S.mem, sp), sp, ridx, src, PairOf(S, sp))
        ELSE IF upd
        THEN RxForward(LearnAddr(Counted(S, sp, ridx), sp, ridx, src),
                       sp, ridx, src, env, PairOf(S, sp))
        ELSE RxForward(Counted(S, sp, ridx), sp, ridx, src, env, PairOf(S, sp))

\* a receive path that counts a rejected datagram as dropped
RxOne_countdrop(S, sp, ridx, src, env) ==
    LET m     == S.mem[sp]
        known == m.addr[ridx] # NoAddr
        drop  == Unauthentic(m, ridx, src)
        upd   == MustLearn(m, ridx, src)
        fail1 == ~known /\ env.nomem = "addr"
        fail2 == upd /\ m.rtcp # NULL /\ S.mem[m.rtcp].addr[ridx] = NoAddr
                 /\ env.nomem = "rtcp"
        T     == [S EXCEPT !.mem[sp].pcount[3] = @ + 1]
    IN  IF drop
        THEN [S |-> T, removed |-> FALSE, ok |-> TRUE,
              ev |-> RxEvent(sp, ridx, src, "drop", PairOf(S, sp), PairOf(T, sp), << >>)]
        ELSE IF fail1 \/ fail2
        THEN RxFail(Counted(S, sp, ridx), GET_RTP(S.mem, sp), sp, ridx, src, PairOf(S, sp))
        ELSE IF upd
        THEN RxForward(LearnAddr(Counted(S, sp, ridx), sp, ridx, src),
                       sp, ridx, src, env, PairOf(S, sp))
        ELSE RxForward(Counted(S, sp, ridx), sp, ridx, src, env, PairOf(S, sp))

\* the body of the for loop of rxmit_packets for one received datagram
\* from src; env.nomem names the malloc() that fails, env.absorb is the
\* resizer taking the packet
RxOne(S, sp, ridx, src, env) ==
    LET m     == S.mem[sp]
        known == m.addr[ridx] # NoAddr
        drop  == Unauthentic(m, ridx, src)
        upd   == MustLearn(m, ridx, src)
        fail1 == ~known /\ env.nomem = "addr"
        fail2 == upd /\ m.rtcp # NULL /\ S.mem[m.rtcp].addr[ridx] = NoAddr
                 /\ env.nomem = "rtcp"
    IN  IF drop
        THEN [S |-> S, removed |-> FALSE, ok |-> TRUE,
              ev |-> RxEvent(sp, ridx, src, "drop", PairOf(S, sp), PairOf(S, sp), << >>)]
        ELSE IF fail1 \/ fail2
        THEN RxFail(Counted(S, sp, ridx), GET_RTP(S.mem, sp), sp, ridx, src, PairOf(S, sp))
        ELSE IF upd
        THEN RxForward(LearnAddr(Counted(S, sp, ridx), sp, ridx, src),
                       sp, ridx, src, env, PairOf(S, sp))
        ELSE RxForward(Counted(S, sp, ridx), sp, ridx, src, env, PairOf(S, sp))

\* rxmit_packets(cf, sp, ridx, ctime) with the datagrams pkts queued on the
\* socket; n counts the rounds of the drain loop
RECURSIVE rxmit_packets(_, _, _, _, _, _, _)

\* after one datagram: a removed session ends the loop, else the next round
RxStep(R, sp, ridx, pkts, env, n, log) ==
    IF R.removed
    THEN [S |-> R.S, removed |-> TRUE, ok |-> R.ok, log |-> Append(log, R.ev)]
    ELSE rxmit_packets(R.S, sp, ridx, Tail(pkts), env, n + 1, Append(log, R.ev))

rxmit_packets(S, sp, ridx, pkts, env, n, log) ==
    IF n >= NDRAIN \/ pkts = << >>
    THEN [S |-> S, removed |-> FALSE, ok |-> TRUE, log |-> log]
    ELSE RxStep(RxOne(S, sp, ridx, Head(pkts), env), sp, ridx, pkts, env, n, log)

\* lines 1482-1487: rtp_resizer_get() hands back nout packets, which empties
\* the resizer, and each is given to send_packet
RECURSIVE ResizerOut(_, _, _, _, _, _)
ResizerOut(S, sp, ridx, nout, small, sent) ==
    IF nout = 0 THEN [S |-> S, sent |-> sent]
    ELSE LET F == send_packet(S, sp, ridx, small) IN
         ResizerOut(F.S, sp, ridx, nout - 1, small, sent \o F.sent)

RzEvent(sp, ridx, nout, pre, post, sent) ==
    [kind |-> "rz", sp |-> sp, ridx |-> ridx, src |-> NoAddr,
     verdict |-> "resized", pre |-> pre, post |-> post, sent |-> sent]

\* the side of session sp whose descriptor is fd; 2 when there is none
LegOf(S, sp, fd) ==
    IF S.mem[sp].fds[0] = fd THEN 0 ELSE IF S.mem[sp].fds[1] = fd THEN 1 ELSE 2

\* process_rtp(cf, ctime), its for loop at index readyfd.  env.slot is the
\* slot poll() reported readable, env.pkts the datagrams queued there,
\* env.rzslot / env.rzout the slot whose resizer has packets due and how
\* many, env.uaf what the read of a freed session yields
RECURSIVE process_rtp_loop(_, _, _, _, _)

\* lines 1462-1470: the side of the session at slot readyfd that the slot polls
LegOfSlot(S, readyfd) ==
    IF S.cf.sessions[readyfd] = NULL THEN 2
    ELSE LegOf(S, S.cf.sessions[readyfd], S.cf.pfds[readyfd])

\* a compaction that forgets to tell the session its new slot
Compact_nosidx(S, readyfd, skipfd, sp, ridx) ==
    IF skipfd > 0
    THEN [S EXCEPT !.cf.pfds[readyfd - skipfd] = S.cf.pfds[readyfd],
                   !.cf.sessions[readyfd - skipfd] = sp]
    ELSE S

\* lines 1472-1477: the slot moves down over the skipfd removed ones
Compact(S, readyfd, skipfd, sp, ridx) ==
    IF skipfd > 0
    THEN [S EXCEPT !.cf.pfds[readyfd - skipfd] = S.cf.pfds[readyfd],
                   !.cf.sessions[readyfd - skipfd] = sp,
                   !.mem[sp].sidx[ridx] = readyfd - skipfd]
    ELSE S

\* lines 1482-1487 done: the packets the resizer gave have been sent
AfterResize(O, pre, sp, ridx, readyfd, skipfd, env, log) ==
    process_rtp_loop(O.S, readyfd + 1, skipfd, env,
        Append(log, RzEvent(sp, ridx, env.rzout, pre, PairOf(O.S, sp), O.sent)))

\* lines 1482-1488 after rxmit_packets returned R
AfterRx(R, sp, ridx, readyfd, skipfd, env, log) ==
    IF ~R.ok THEN [S |-> R.S, log |-> log \o R.log, end |-> "abort"]
    ELSE IF R.removed
    \* sp->resizers[ridx].output_nsamples is read from the freed session
    THEN IF env.uaf
         THEN [S |-> R.S, log |-> log \o R.log, end |-> "uaf"]
         ELSE process_rtp_loop(R.S, readyfd + 1, skipfd, env, log \o R.log)
    ELSE IF /\ R.S.mem[sp].resizers[ridx].output_nsamples > 0
            /\ env.rzslot = readyfd
            /\ R.S.mem[sp].resizers[ridx].queued > 0
    THEN AfterResize(ResizerOut([R.S EXCEPT !.mem[sp].resizers[ridx].queued = 0],
                                sp, ridx, env.rzout, env.small, << >>),
                     PairOf(R.S, sp), sp, ridx, readyfd, skipfd, env, log \o R.log)
    ELSE process_rtp_loop(R.S, readyfd + 1, skipfd, env, log \o R.log)

\* the datagrams queued on a socket that the pass does not read
SkipEvent(S, sp, ridx) ==
    [kind |-> "skip", sp |-> sp, ridx |-> ridx, src |-> NoAddr,
     verdict |-> "unread", pre |-> PairOf(S, sp), post |-> PairOf(S, sp), sent |-> << >>]

\* a pass that serves a slot whether its session is complete or not
ServeSlot_any(S, sp, ridx, readyfd, skipfd, env, log) ==
    IF env.slot = readyfd
    THEN AfterRx(rxmit_packets(S, sp, ridx, env.pkts, env, 0, << >>),
                 sp, ridx, readyfd, skipfd, env, log)
    ELSE AfterRx([S |-> S, removed |-> FALSE, ok |-> TRUE, log |-> << >>],
                 sp, ridx, readyfd, skipfd, env, log)

\* lines 1479-1481: a complete session has its readable socket drained; the
\* socket of one that is not complete is left as it is
ServeSlot(S, sp, ridx, readyfd, skipfd, env, log) ==
    IF S.mem[sp].complete = 0
    THEN process_rtp_loop(S, readyfd + 1, skipfd, env,
                          IF env.slot = readyfd
                          THEN Append(log, SkipEvent(S, sp, ridx)) ELSE log)
    ELSE IF env.slot = readyfd
    THEN AfterRx(rxmit_packets(S, sp, ridx, env.pkts, env, 0, << >>),
                 sp, ridx, readyfd, skipfd, env, log)
    ELSE AfterRx([S |-> S, removed |-> FALSE, ok |-> TRUE, log |-> << >>],
                 sp, ridx, readyfd, skipfd, env, log)

process_rtp_loop(S, readyfd, skipfd, env, log) ==
    IF readyfd >= S.cf.nsessions
    THEN [S |-> [S EXCEPT !.cf.nsessions = @ - skipfd], log |-> log, end |-> "done"]
    ELSE IF S.cf.pfds[readyfd] = -1
    THEN process_rtp_loop(S, readyfd + 1, skipfd + 1, env, log)
    ELSE IF LegOfSlot(S, readyfd) = 2
    THEN [S |-> S, log |-> log, end |-> "abort"]
    ELSE ServeSlot(Compact(S, readyfd, skipfd, S.cf.sessions[readyfd], LegOfSlot(S, readyfd)),
                   S.cf.sessions[readyfd], LegOfSlot(S, readyfd),
                   readyfd, skipfd, env, log)

process_rtp(S, env) == process_rtp_loop(S, 1, 0, env, << >>)

(* ---------------------------------------------------------------------- *)
(* Prompt-player scheduler                                                  *)
(* ---------------------------------------------------------------------- *)

\* lines 1278-1297 for side sidx of sp: eof is rtp_server_get() returning
\* RTPS_EOF (after any number of packets), otherwise it returns RTPS_LATER
ServeSide(S, sp, sidx, eof) ==
    IF S.mem[sp].rtps[sidx] = NULL \/ S.mem[sp].addr[sidx] = NoAddr THEN S
    ELSE IF ~eof THEN S
    ELSE LET S1 == [S EXCEPT !.mem[sp].rtps[sidx] = NULL] IN
         IF S1.mem[sp].rtps[0] = NULL /\ S1.mem[sp].rtps[1] = NULL
         THEN [S1 EXCEPT !.cf.rtp_servers[S1.mem[sp].sridx] = NULL,
                         !.mem[sp].sridx = -1]
         ELSE S1

\* process_rtp_servers(cf, ctime), its for loop at index j; eof[sidx] tells
\* whether a player of that side ends in this pass
RECURSIVE process_rtp_servers_loop(_, _, _, _)
process_rtp_servers_loop(S, j, skipfd, eof) ==
    IF j >= S.cf.rtp_nsessions THEN [S EXCEPT !.cf.rtp_nsessions = @ - skipfd]
    ELSE LET sp == S.cf.rtp_servers[j] IN
         IF sp = NULL THEN process_rtp_servers_loop(S, j + 1, skipfd + 1, eof)
         ELSE LET S1 == IF skipfd > 0
                        THEN [S EXCEPT !.cf.rtp_servers[j - skipfd] = sp,
                                       !.mem[sp].sridx = j - skipfd]
                        ELSE S
                  S2 == ServeSide(ServeSide(S1, sp, 0, eof[0]), sp, 1, eof[1])
              IN  process_rtp_servers_loop(S2, j + 1, skipfd, eof)

process_rtp_servers(S, eof) == process_rtp_servers_loop(S, 0, 0, eof)

(* ---------------------------------------------------------------------- *)
(* The environment's inputs                                                 *)
(* ---------------------------------------------------------------------- *)

\* 10.0.0.1:5000, 10.0.0.2:6000 and a second port of the first host
Addr1 == Sa(1, 5000)
Addr2 == Sa(2, 6000)
Addr3 == Sa(1, 5500)

\* a command as read from the control channel; the fields a verb does not
\* read are left at their defaults
Cmd(verb, mods, nargs, call_id, addr, from_tag, to_tag) ==
    [verb |-> verb, mods |-> mods, nargs |-> nargs, call_id |-> call_id,
     addr |-> addr, from_tag |-> from_tag, to_tag |-> to_tag,
     known |-> FALSE, player_ok |-> TRUE, oserr |-> FALSE, nomem |-> 0,
     wild |-> "null", cookie |-> NoCookie, busy |-> {}, errs |-> {}]

PlainCmd(verb) == Cmd(verb, << >>, "ok", "", NoAddr, NoTag, NoTag)

ModA == << Mod("A", 0) >>
ModW == << Mod("W", 0) >>
ModZ == << Mod("Z", 20) >>

\* the commands of a call that is offered, answered and deleted
CmdsRelay ==
    { Cmd("U", << >>, "ok", "abc", Addr1, TagA, NoTag),
      Cmd("L", << >>, "ok", "abc", Addr2, TagA, TagB),
      Cmd("D", << >>, "ok", "abc", NoAddr, TagA, NoTag) }

\* the same with repacketization asked for or not
CmdsResize ==
    { Cmd("U", md, "ok", "abc", Addr1, TagA, NoTag) : md \in {<< >>, ModZ} }
    \cup { Cmd("L", md, "ok", "abc", Addr2, TagA, TagB) : md \in {<< >>, ModZ} }

\* every verb, with and without modifiers, tags and call-ids that match or not
CmdsAll ==
    { Cmd("U", md, "ok", "abc", Addr1, tg[1], tg[2]) :
        md \in {<< >>, ModW}, tg \in {<< TagA, NoTag >>, << TagB, TagA >>} }
    \cup { Cmd("L", md, "ok", "abc", Addr2, TagA, TagB) : md \in {<< >>, ModW} }
    \cup { Cmd(v, md, "ok", ci, NoAddr, tg[1], tg[2]) :
        v \in {"D", "R", "S"}, md \in {<< >>, ModW}, ci \in {"abc", "xyz"},
        tg \in {<< TagA, NoTag >>, << TagB, TagA >>} }
    \cup { [Cmd("P", << >>, "ok", "abc", NoAddr, ft, NoTag) EXCEPT !.player_ok = ok] :
        ft \in {TagA, TagB}, ok \in BOOLEAN }
    \cup { Cmd(v, << >>, "bad", "abc", NoAddr, TagA, NoTag) : v \in SessionVerbs \cup {"V", "VF"} }
    \cup { PlainCmd(v) : v \in {"", "V", "I", "X"} }
    \cup { [PlainCmd("VF") EXCEPT !.known = k] : k \in BOOLEAN }

\* the address a datagram arrives from on the socket of session sp: RTCP
\* peers send from the port above their RTP port
SrcFor(S, sp, a) == IF S.mem[sp].rtp = NULL THEN a ELSE Sa(a.h, a.p + 1)

Bursts(srcs) == UNION { [1 .. n -> srcs] : n \in 1 .. MaxBurst }

NoEnv == [slot |-> 0, pkts |-> << >>, nomem |-> "none", absorb |-> FALSE,
          rzslot |-> 0, rzout |-> 0, uaf |-> FALSE, small |-> FALSE]

(* ---------------------------------------------------------------------- *)
(* main(): the event loop                                                   *)
(* ---------------------------------------------------------------------- *)

Now == St(cf, mem, socks)

IdleCmd == [verb |-> "-", mods |-> << >>, nargs |-> "-", key |-> << >>, addr |-> NoAddr,
            cookie |-> NoCookie, heads |-> << >>, replies |-> << >>, touched |-> << >>, end |-> "-",
            busy |-> {}, errs |-> {}, oserr |-> FALSE, probes |-> << >>]

\* lines 1151-1157: port_min and port_max are made even
RoundUp(m) == IF m % 2 # 0 THEN m + 1 ELSE m
RoundDown(M) == IF M % 2 # 0 THEN M - 1 ELSE M

\* the struct cfg init_config() and main() set up for the options -m m -M M
init_config(m, M) ==
    LET lo == RoundUp(m)
        hi == RoundDown(M)
        n  == ((hi - lo + 1) * 2) + 1
    IN  [ umode            |-> 0,
          dmode            |-> 0,
          port_min         |-> lo,
          port_max         |-> hi,
          sessions         |-> [i \in 0 .. (n - 1) |-> NULL],
          pfds             |-> [i \in 0 .. (n - 1) |-> IF i = 0 THEN 1 ELSE -1],
          nsessions        |-> 1,
          rtp_servers      |-> [i \in 0 .. (n - 1) |-> NULL],
          rtp_nsessions    |-> 0,
          nextport         |-> [j \in {0} |-> lo],
          sessions_created |-> 0 ]

\* the rest of the state when main() enters its loop
Booted ==
    /\ mem = [p \in Ptrs |-> FreeObj]
    /\ socks = {}
    /\ pc = "rtp"
    /\ fault = "none"
    /\ lastCmd = IdleCmd
    /\ lastPass = << >>
    /\ owed = {}

Init ==
    /\ cf = init_config(port_min, port_max)
    /\ Booted

\* the handler main() runs first in an iteration
TopOfLoop(c) == IF c.rtp_nsessions > 0 THEN "servers" ELSE "rtp"

Install(S) == cf' = S.cf /\ mem' = S.mem /\ socks' = S.socks

\* line 1600: process_rtp_servers
ProcessRtpServers ==
    /\ fault = "none" /\ pc = "servers"
    /\ \E eof \in [Sides -> BOOLEAN] : Install(process_rtp_servers(Now, eof))
    /\ pc' = "rtp"
    /\ UNCHANGED << fault, lastCmd, lastPass, owed >>

\* the slots of live descriptors whose session may still count packets
OpenSlots ==
    { i \in 1 .. (cf.nsessions - 1) :
        /\ cf.pfds[i] # -1
        /\ mem[cf.sessions[i]].pcount[0] + mem[cf.sessions[i]].pcount[1] < MaxPkts
        /\ mem[cf.sessions[i]].pcount[2] + mem[cf.sessions[i]].pcount[3] < MaxPkts }

\* the side of the session at slot sl that slot sl polls
SlotSide(sl) == LegOf(Now, cf.sessions[sl], cf.pfds[sl])

\* the sizes of a packet that make a difference: below LBR_THRS or not,
\* which matters in double mode only
Smalls == IF cf.dmode # 0 THEN BOOLEAN ELSE {FALSE}

\* what process_rtp may meet in one pass: nothing, datagrams queued on one
\* readable socket, or resizer output due on one socket
PassEnvs(srcs, nomems, absorbs) ==
    { NoEnv } \cup
    { [NoEnv EXCEPT !.slot = sl,
                    !.pkts = [k \in DOMAIN b |-> SrcFor(Now, cf.sessions[sl], b[k])],
                    !.nomem = nm, !.absorb = ab, !.uaf = u, !.small = sm] :
        sl \in { i \in OpenSlots : mem[cf.sessions[i]].complete # 0 },
        b \in Bursts(srcs), nm \in nomems, ab \in absorbs, u \in BOOLEAN,
        sm \in Smalls }
    \cup
    { [NoEnv EXCEPT !.rzslot = sl, !.rzout = n, !.small = sm] :
        sl \in OpenSlots, n \in 1 .. (MaxQueued + 1), sm \in Smalls }

\* an input that does not reach the code it is for is left out
UsefulEnv(env) ==
    /\ env.absorb =>
         LET r == mem[cf.sessions[env.slot]].resizers[SlotSide(env.slot)] IN
         r.output_nsamples > 0 /\ r.queued < MaxQueued
    /\ env.nomem # "none" =>
         LET sp == cf.sessions[env.slot]
             i  == SlotSide(env.slot)
         IN  \/ mem[sp].addr[i] = NoAddr
             \/ mem[sp].rtcp # NULL /\ mem[mem[sp].rtcp].addr[i] = NoAddr
    /\ env.uaf => env.nomem # "none"
    /\ env.rzslot # 0 =>
         LET r == mem[cf.sessions[env.rzslot]].resizers[SlotSide(env.rzslot)] IN
         r.queued > 0 /\ r.output_nsamples > 0 /\ env.rzout <= r.queued + 1

\* datagrams queued on a socket of a session that is not complete
UnreadEnvs(srcs) ==
    { [NoEnv EXCEPT !.slot = sl,
                    !.pkts = [k \in DOMAIN b |-> SrcFor(Now, cf.sessions[sl], b[k])]] :
        sl \in { i \in OpenSlots : mem[cf.sessions[i]].complete = 0 },
        b \in Bursts(srcs) }

\* line 1602: process_rtp, with what poll() reported drawn from envs
RtpPass(envs) ==
    /\ fault = "none" /\ pc = "rtp"
    /\ \E env \in envs :
         /\ UsefulEnv(env)
         /\ LET R == process_rtp(Now, env) IN
            /\ Install(R.S)
            /\ lastPass' = R.log
            /\ fault' = IF R.end = "done" THEN "none" ELSE R.end
    /\ pc' = "poll_cmd"
    /\ UNCHANGED << lastCmd, owed >>

ProcessRtp(srcs, nomems, absorbs) == RtpPass(PassEnvs(srcs, nomems, absorbs))

\* lines 1603 and 1501: process_commands is entered
EnterCommands ==
    /\ fault = "none" /\ pc = "poll_cmd"
    /\ pc' = "commands"
    /\ lastPass' = << >>
    /\ UNCHANGED << cf, mem, socks, fault, lastCmd, owed >>

\* the U commands that were answered with a port and that no D command for
\* the same call and tags, answered 0, has followed
Owed(cmd, R) ==
    LET key == << cmd.call_id, cmd.from_tag, cmd.to_tag >> IN
    IF cmd.verb = "U" /\ R.end = "writeport" THEN owed \cup {key}
    ELSE IF cmd.verb = "D" /\ R.replies = << Reply("ok", 0) >>
    THEN owed \ {key}
    ELSE owed

\* line 1517: handle_command reads one command and handles it; nsrv caps
\* the length of the scheduler list
HandleOne(cmds, nsrv) ==
    /\ fault = "none" /\ pc = "commands"
    /\ \E cmd \in cmds :
         LET R == handle_command([Now EXCEPT !.busy = cmd.busy, !.errs = cmd.errs], cmd) IN
         /\ R.S.cf.sessions_created <= MaxCreated
         /\ R.S.cf.rtp_nsessions <= nsrv
         /\ IF R.S.oob THEN UNCHANGED << cf, mem, socks >> ELSE Install(R.S)
         /\ lastCmd' = [verb |-> cmd.verb, mods |-> cmd.mods, nargs |-> cmd.nargs,
                        key |-> << cmd.call_id, cmd.from_tag, cmd.to_tag >>,
                        addr |-> cmd.addr,
                        cookie |-> cmd.cookie,
                        heads |-> Heads(Now, cmd, R.replies),
                        replies |-> R.replies,
                        touched |-> R.touched, end |-> R.end,
                        busy |-> cmd.busy, errs |-> cmd.errs, oserr |-> cmd.oserr,
                        probes |-> R.S.probes]
         /\ fault' = IF R.S.oob THEN "overflow"
                     ELSE IF R.end = "loops" THEN "hang"
                     ELSE IF R.end = "abort" THEN "abort"
                     ELSE IF R.end = "badfree" THEN "badfree" ELSE "none"
         /\ owed' = Owed(cmd, R)
    /\ pc' = "cmd_done"
    /\ UNCHANGED lastPass

ProcessCommand(cmds) == HandleOne(cmds, MaxServers)

\* lines 1518-1521: the command's connection is closed, the loop goes round
CloseControl ==
    /\ fault = "none" /\ pc = "cmd_done"
    /\ pc' = "commands"
    /\ lastCmd' = IdleCmd
    /\ UNCHANGED << cf, mem, socks, fault, lastPass, owed >>

\* a tick test that never finds TIMETICK elapsed
AlarmHandler_never ==
    /\ fault = "none" /\ pc = "commands"
    /\ pc' = TopOfLoop(cf)
    /\ UNCHANGED << cf, mem, socks, fault, lastCmd, lastPass, owed >>

\* lines 1606-1609: no more commands are pending and TIMETICK has elapsed
AlarmHandler ==
    /\ fault = "none" /\ pc = "commands"
    /\ LET R == alarmhandler(Now) IN
       /\ Install(R.S)
       /\ fault' = IF R.ok THEN "none" ELSE "abort"
       /\ pc' = TopOfLoop(R.S.cf)
    /\ UNCHANGED << lastCmd, lastPass, owed >>

\* no more commands are pending and TIMETICK has not elapsed
NoAlarm ==
    /\ fault = "none" /\ pc = "commands"
    /\ pc' = TopOfLoop(cf)
    /\ UNCHANGED << cf, mem, socks, fault, lastCmd, lastPass, owed >>

\* a call is set up and torn down while datagrams arrive from the two
\* parties and from a third source
RelayRtp == ProcessRtp({Addr1, Addr2, Addr3}, {"none", "addr", "rtcp"}, {FALSE})
RelayCommand == ProcessCommand(CmdsRelay)
NextRelay ==
    RelayRtp \/ EnterCommands \/ RelayCommand \/ CloseControl \/ AlarmHandler \/ NoAlarm
SpecRelay == Init /\ [][NextRelay]_vars

\* the same call, with datagrams arriving before it is answered as well, and
\* a prompt played to it
CmdsEarly ==
    CmdsRelay \cup { Cmd("P", << >>, "ok", "abc", NoAddr, TagA, NoTag) }
EarlyRtp ==
    RtpPass(PassEnvs({Addr2}, {"none"}, {FALSE}) \cup UnreadEnvs({Addr1, Addr2}))
EarlyCommand == ProcessCommand(CmdsEarly)
NextEarly ==
    \/ ProcessRtpServers \/ EarlyRtp \/ EnterCommands \/ EarlyCommand \/ CloseControl
    \/ AlarmHandler \/ NoAlarm
SpecEarly == Init /\ [][NextEarly]_vars

\* the same with resizers
ResizeRtp == ProcessRtp({Addr1, Addr2}, {"none"}, BOOLEAN)
ResizeCommand == ProcessCommand(CmdsResize)
NextResize ==
    ResizeRtp \/ EnterCommands \/ ResizeCommand \/ CloseControl \/ AlarmHandler \/ NoAlarm
SpecResize == Init /\ [][NextResize]_vars

\* the same call with sides that are asymmetric or not, while datagrams
\* arrive from the recorded addresses, and from the caller's host on
\* another port
CmdsAsym ==
    { Cmd("U", md, "ok", "abc", Addr1, TagA, NoTag) : md \in {<< >>, ModA} }
    \cup { Cmd("L", md, "ok", "abc", Addr2, TagA, TagB) : md \in {<< >>, ModA} }
AsymRtp == ProcessRtp({Addr1, Addr2, Addr3}, {"none"}, {FALSE})
AsymCommand == ProcessCommand(CmdsAsym)
NextAsym ==
    AsymRtp \/ EnterCommands \/ AsymCommand \/ CloseControl \/ AlarmHandler \/ NoAlarm
SpecAsym == Init /\ [][NextAsym]_vars

\* an offer, an answer that brings an address, and an answer for an
\* asymmetric side that brings none (a null or unresolvable one), while
\* datagrams arrive from two hosts and the allocation of a learned address
\* may fail
CmdsLearn ==
    { Cmd("U", << >>, "ok", "abc", Addr1, TagA, NoTag),
      Cmd("L", << >>, "ok", "abc", Addr2, TagA, TagB),
      Cmd("L", ModA, "ok", "abc", NoAddr, TagA, TagB) }
LearnRtp == ProcessRtp({Addr2, Addr3}, {"none", "addr", "rtcp"}, {FALSE})
LearnCommand == ProcessCommand(CmdsLearn)
NextLearn ==
    LearnRtp \/ EnterCommands \/ LearnCommand \/ CloseControl \/ AlarmHandler \/ NoAlarm
SpecLearn == Init /\ [][NextLearn]_vars

\* rtpproxy -2: double mode.  A call is set up, answered with an address
\* or with none, prompts are played to either party until they end, and
\* datagrams below LBR_THRS or not arrive from the two parties; no tick
\* elapses
InitDouble ==
    /\ cf = [init_config(port_min, port_max) EXCEPT !.dmode = 1]
    /\ Booted
CmdsDouble ==
    { Cmd("U", << >>, "ok", "abc", Addr1, TagA, NoTag),
      Cmd("L", << >>, "ok", "abc", Addr2, TagA, TagB),
      Cmd("L", << >>, "ok", "abc", NoAddr, TagA, TagB),
      Cmd("P", << >>, "ok", "abc", NoAddr, TagA, NoTag),
      Cmd("P", << >>, "ok", "abc", NoAddr, TagB, TagA) }
DoubleRtp == ProcessRtp({Addr1, Addr2}, {"none"}, {FALSE})
DoubleCommand == ProcessCommand(CmdsDouble)
NextDouble ==
    \/ ProcessRtpServers \/ DoubleRtp \/ EnterCommands \/ DoubleCommand
    \/ CloseControl \/ NoAlarm
SpecDouble == InitDouble /\ [][NextDouble]_vars

\* a pass that finds no socket readable
IdleRtp == ProcessRtp({}, {"none"}, {FALSE})

\* weak and strong holds on one call: created, looked up and deleted with
\* and without the W modifier
CmdsHold ==
    { Cmd("U", md, "ok", "abc", Addr1, TagA, NoTag) : md \in {<< >>, ModW} }
    \cup { Cmd("L", md, "ok", "abc", Addr2, TagA, TagB) : md \in {<< >>, ModW} }
    \cup { Cmd("D", md, "ok", "abc", NoAddr, TagA, TagB) : md \in {<< >>, ModW} }
HoldCommand == ProcessCommand(CmdsHold)
NextHold ==
    IdleRtp \/ EnterCommands \/ HoldCommand \/ CloseControl \/ AlarmHandler \/ NoAlarm
SpecHold == Init /\ [][NextHold]_vars

\* every command, no datagrams
AnyCommand == ProcessCommand(CmdsAll)
Next ==
    \/ ProcessRtpServers \/ IdleRtp \/ EnterCommands \/ AnyCommand \/ CloseControl
    \/ AlarmHandler \/ NoAlarm
Spec == Init /\ [][Next]_vars

\* a call of two media streams, offered with the tags a;1 and a;2 and held
\* strongly or weakly; prompts played on each stream; a stop and a delete
\* that name the call by the tag a; no datagrams
CmdsMedia ==
    { Cmd("U", md, "ok", "abc", Addr1, tg, NoTag) :
        md \in {<< >>, ModW}, tg \in {TagA1, TagA2} }
    \cup { Cmd("P", << >>, "ok", "abc", NoAddr, tg, NoTag) : tg \in {TagA1, TagA2} }
    \cup { Cmd(v, << >>, "ok", "abc", NoAddr, TagA, NoTag) : v \in {"S", "D"} }
MediaCommand == HandleOne(CmdsMedia, MaxPlayers)
NextMedia ==
    \/ ProcessRtpServers \/ IdleRtp \/ EnterCommands \/ MediaCommand \/ CloseControl
    \/ AlarmHandler \/ NoAlarm
SpecMedia == Init /\ [][NextMedia]_vars

\* rtpproxy -m 2 -M 2: one port pair, three slots.  A call is offered,
\* a prompt is played and played again, the call is deleted and offered
\* again, any number of these in one batch of commands
InitBatch ==
    /\ cf = init_config(port_min, port_min)
    /\ Booted
CmdsBatch ==
    { Cmd("U", << >>, "ok", "abc", Addr1, TagA, NoTag),
      Cmd("P", << >>, "ok", "abc", NoAddr, TagA, NoTag),
      Cmd("D", << >>, "ok", "abc", NoAddr, TagA, NoTag) }
BatchCommand == HandleOne(CmdsBatch, MaxListed)
NextBatch ==
    \/ ProcessRtpServers \/ IdleRtp \/ EnterCommands \/ BatchCommand \/ CloseControl
    \/ AlarmHandler \/ NoAlarm
SpecBatch == InitBatch /\ [][NextBatch]_vars

\* the -m / -M options the port allocator is started with: init_config
\* refuses m > M, and an odd m = M leaves no port at all
PortOptions ==
    { o \in (1 .. 4) \X (4 .. 6) : o[1] <= o[2] /\ RoundUp(o[1]) <= RoundDown(o[2]) }
InitPorts ==
    /\ \E o \in PortOptions : cf = init_config(o[1], o[2])
    /\ Booted

\* calls that are offered one after the other, answered and deleted
CmdsPorts ==
    { Cmd("U", << >>, "ok", id, Addr1, tg, NoTag) :
        id \in {"abc", "xyz"}, tg \in {TagA, TagB} }
    \cup { Cmd("L", << >>, "ok", "abc", Addr2, TagA, TagB),
           Cmd("D", << >>, "ok", "abc", NoAddr, TagA, NoTag) }
PortsCommand == ProcessCommand(CmdsPorts)
NextPorts ==
    IdleRtp \/ EnterCommands \/ PortsCommand \/ CloseControl \/ AlarmHandler \/ NoAlarm
SpecPorts == InitPorts /\ [][NextPorts]_vars

\* the same calls while other processes hold some of the ports, or bind()
\* fails on one with another error than EADDRINUSE and EACCES, or socket()
\* fails
BusySets == { {}, {2, 3}, {5}, 4 .. 7, 2 .. 7 }
ErrSets == { {}, {4}, {7} }
CmdsAlloc ==
    { [Cmd("U", << >>, "ok", id, Addr1, TagA, NoTag) EXCEPT !.busy = b, !.errs = e] :
        id \in {"abc", "xyz"}, b \in BusySets, e \in ErrSets }
    \cup { [Cmd("L", << >>, "ok", "abc", Addr2, TagA, TagB) EXCEPT !.busy = b] :
             b \in BusySets }
    \cup { [Cmd("U", << >>, "ok", "xyz", Addr1, TagA, NoTag) EXCEPT !.oserr = TRUE],
           Cmd("D", << >>, "ok", "abc", NoAddr, TagA, NoTag) }
AllocCommand == ProcessCommand(CmdsAlloc)
NextAlloc ==
    IdleRtp \/ EnterCommands \/ AllocCommand \/ CloseControl \/ AlarmHandler \/ NoAlarm
SpecAlloc == InitPorts /\ [][NextAlloc]_vars

\* commands that fail: socket() or bind() failing with another error than
\* EADDRINUSE, malloc() failing at one of its calls, a prompt that cannot be
\* loaded, a wrong argument count, next to the ones that succeed
CmdsErrors ==
    { [Cmd("U", << >>, "ok", id, Addr1, TagA, NoTag)
          EXCEPT !.oserr = oe, !.nomem = nm, !.wild = w] :
        id \in {"abc", "xyz"}, oe \in BOOLEAN, nm \in {0, 5, 11, 12, 13, 14},
        w \in {"null", "abort", "damage"} }
    \cup { [Cmd("L", << >>, "ok", "abc", Addr2, TagA, TagB)
               EXCEPT !.oserr = oe, !.nomem = nm] :
             oe \in BOOLEAN, nm \in {0, 5} }
    \cup { [Cmd("P", << >>, "ok", "abc", NoAddr, TagA, NoTag) EXCEPT !.player_ok = FALSE],
           Cmd("D", << >>, "ok", "abc", NoAddr, TagB, NoTag),
           Cmd("D", ModW, "ok", "abc", NoAddr, TagA, NoTag),
           Cmd("U", << >>, "bad", "abc", NoAddr, TagA, NoTag),
           PlainCmd("X") }
ErrorsCommand == ProcessCommand(CmdsErrors)
NextErrors ==
    IdleRtp \/ EnterCommands \/ ErrorsCommand \/ CloseControl \/ AlarmHandler \/ NoAlarm
SpecErrors == Init /\ [][NextErrors]_vars

\* the control channel is a datagram socket (-s udp:...)
InitUdp ==
    /\ cf = [init_config(port_min, port_max) EXCEPT !.umode = 1]
    /\ Booted

\* datagrams with a cookie and a command: calls with a long call-id, the
\* queries, commands that fail; and a datagram of one token
CmdsUdp ==
    { [c EXCEPT !.cookie = "c1"] :
        c \in { Cmd("U", << >>, "ok", "long", Addr1, TagA, NoTag),
                Cmd("U", << >>, "ok", "long", Addr1, TagB, NoTag),
                Cmd("U", << >>, "ok", "abc", Addr1, TagA, NoTag),
                Cmd("L", << >>, "ok", "long", Addr2, TagA, TagB),
                Cmd("D", << >>, "ok", "abc", NoAddr, TagA, NoTag),
                Cmd("D", << >>, "ok", "xyz", NoAddr, TagA, NoTag),
                Cmd("U", << >>, "bad", "abc", NoAddr, TagA, NoTag),
                PlainCmd("I"), PlainCmd("V"), PlainCmd("VF"), PlainCmd("X"),
                PlainCmd("") } }
UdpCommand == ProcessCommand(CmdsUdp)
NextUdp ==
    IdleRtp \/ EnterCommands \/ UdpCommand \/ CloseControl \/ AlarmHandler \/ NoAlarm
SpecUdp == InitUdp /\ [][NextUdp]_vars

(* ---------------------------------------------------------------------- *)
(* Properties                                                               *)
(* ---------------------------------------------------------------------- *)

\* the events of the last forwarder pass
PassEvents == { lastPass[k] : k \in DOMAIN lastPass }

\* the event is a datagram received on a socket of the RTP session
RtpRx(e) == e.kind = "rx" /\ e.pre.rtp.rtcp # NULL /\ e.pre.rtp.rtcp # e.sp

\* the pair as U abc 10.0.0.1 5000 tagA and L abc 10.0.0.2 6000 tagA tagB
\* leave it: both sides bound, the U address on side 1, the L address on
\* side 0, no prompt playing and no resizer
AfterS1(pr) ==
    /\ pr.rtp.inuse /\ pr.rtp.call_id = "abc" /\ pr.rtp.complete = 1
    /\ pr.rtp.fds[0] # -1 /\ pr.rtp.fds[1] # -1
    /\ pr.rtp.addr[1] = Addr1 /\ pr.rtp.addr[0] = Addr2
    /\ \A i \in Sides : /\ pr.rtp.asymmetric[i] = 0
                        /\ pr.rtp.rtps[i] = NULL
                        /\ pr.rtp.resizers[i].output_nsamples <= 0

\* C1 (as the code has it): after U abc 10.0.0.1 5000 tagA returned port P and
\* L abc 10.0.0.2 6000 tagA tagB returned port Q, a datagram received on P
\* from 10.0.0.2:6000 is forwarded to 10.0.0.1:5000 through the socket bound
\* to Q, and a datagram received on Q from 10.0.0.1:5000 is forwarded to
\* 10.0.0.2:6000 through the socket bound to P.
C1_BasicRelay ==
    \A e \in PassEvents :
        RtpRx(e) /\ AfterS1(e.pre) =>
            /\ e.ridx = 0 /\ e.src = Addr2 =>
                 e.sent = << Sent(e.pre.rtp.ports[1], Addr1) >>
            /\ e.ridx = 1 /\ e.src = Addr1 =>
                 e.sent = << Sent(e.pre.rtp.ports[0], Addr2) >>

\* a datagram from 10.0.0.2:6000 on P has gone out through Q to 10.0.0.1:5000
C1_Witness ==
    \E e \in PassEvents :
        /\ RtpRx(e) /\ AfterS1(e.pre)
        /\ e.ridx = 0 /\ e.src = Addr2
        /\ e.sent = << Sent(e.pre.rtp.ports[1], Addr1) >>

\* C1 as stated: the datagram received on P from 10.0.0.1:5000 is forwarded
\* to 10.0.0.2:6000 through Q, the one received on Q from 10.0.0.2:6000 to
\* 10.0.0.1:5000 through P.
C1_AsStated ==
    \A e \in PassEvents :
        RtpRx(e) /\ AfterS1(e.pre) =>
            /\ e.ridx = 0 /\ e.src = Addr1 =>
                 e.sent = << Sent(e.pre.rtp.ports[1], Addr2) >>
            /\ e.ridx = 1 /\ e.src = Addr2 =>
                 e.sent = << Sent(e.pre.rtp.ports[0], Addr1) >>

\* C2: every command read from the control channel has produced exactly one
\* reply when handle_command is over; only the I command may produce more.
C2_OneReply ==
    lastCmd.verb # "-" =>
        IF lastCmd.verb = "I"
        THEN Len(lastCmd.replies) >= 1
        ELSE Len(lastCmd.replies) = 1

\* the sessions that are allocated
Live == { p \in Ptrs : mem[p].inuse }

\* C3: poll-set / session-table lockstep: for every live session s (RTP or
\* RTCP) and side i with fds[i] # -1, pfds[s.sidx[i]] holds fds[i] and
\* sessions[s.sidx[i]] is s, after any commands, forwarder passes (with
\* their in-place compaction), housekeeper ticks and removals.
C3_Lockstep ==
    fault = "none" =>
        \A s \in Live : \A i \in Sides :
            mem[s].fds[i] # -1 =>
                /\ mem[s].sidx[i] \in 1 .. (cf.nsessions - 1)
                /\ cf.pfds[mem[s].sidx[i]] = mem[s].fds[i]
                /\ cf.sessions[mem[s].sidx[i]] = s

\* a pass has moved a live session down over the slots of a removed one: its
\* old slot, now beyond the end of the poll set, still shows the descriptor
C3_Witness ==
    /\ pc = "poll_cmd" /\ fault = "none"
    /\ \E s \in Live : \E i \in Sides : \E k \in 1 .. (Capacity - 1) :
         /\ mem[s].fds[i] # -1
         /\ k >= cf.nsessions
         /\ cf.pfds[k] = mem[s].fds[i] /\ cf.sessions[k] = s
         /\ mem[s].sidx[i] < k
         /\ cf.sessions[mem[s].sidx[i]] = s

\* the RTP sessions of the table: the ones that carry the holds of their pair
LiveRtp == { p \in Live : mem[p].rtcp # NULL }

\* the sessions the last command matched
Visited == { lastCmd.touched[k] : k \in DOMAIN lastCmd.touched }

\* C4: a session persists exactly while it holds a reference: every session
\* in the table has strong, weak[0] or weak[1] set, and a D command has
\* removed a session it visited if and only if, after clearing the hold it
\* targets, all three were zero.
C4_HeldWhileLive ==
    /\ \A s \in LiveRtp : mem[s].strong # 0 \/ mem[s].weak[0] # 0 \/ mem[s].weak[1] # 0
    /\ lastCmd.verb = "D" =>
         \A t \in Visited :
            (t.strong = 0 /\ t.weak[0] = 0 /\ t.weak[1] = 0) <=> ~mem[t.sp].inuse

\* a D has cleared strong of a session that a weak hold keeps in the table
C4_Witness ==
    /\ lastCmd.verb = "D" /\ lastCmd.replies = << Reply("ok", 0) >>
    /\ \E t \in Visited :
         /\ t.strong = 0 /\ t.weak[0] = 1
         /\ mem[t.sp].inuse /\ mem[t.sp].strong = 0 /\ mem[t.sp].weak[0] = 1

\* C5: when every U that created or re-held a session has been followed by a
\* D for the same call and tags, and the commands are over, no session
\* remains in the session table and no socket bound for a session is open.
C5_MatchedDeleteEmpties ==
    (pc = "cmd_done" /\ fault = "none" /\ owed = {}) => (Live = {} /\ socks = {})

\* the D that matches the only U has been answered
C5_Reached ==
    /\ pc = "cmd_done" /\ fault = "none" /\ owed = {}
    /\ lastCmd.verb = "D" /\ lastCmd.replies = << Reply("ok", 0) >>
    /\ cf.sessions_created > 0

\* the holds a weak create leaves
WeakOnly == [strong |-> 0, weak |-> [i \in Sides |-> IF i = 0 THEN 1 ELSE 0]]

\* C6: weak/strong delete (S3), every command being for the one call: an L
\* on the session a weak create (U with W) made leaves it with weak[0]=1 and
\* strong=1; a D without W clears only strong, and a session with a weak
\* hold stays; a D with W clears weak[i] of the side it matched and removes
\* the session if that was the last hold.
C6_WeakStrongDelete ==
    (pc = "cmd_done" /\ fault = "none") =>
        /\ (lastCmd.verb = "L" /\ lastCmd.mods = << >>) =>
             \A t \in Visited :
                t.was = WeakOnly => (t.weak[0] = 1 /\ t.strong = 1)
        /\ (lastCmd.verb = "D" /\ lastCmd.mods = << >>) =>
             /\ LiveRtp # {} => Visited # {}
             /\ \A t \in Visited :
                   /\ t.strong = 0 /\ t.weak = t.was.weak
                   /\ (t.weak[0] = 1 \/ t.weak[1] = 1) => mem[t.sp].inuse
        /\ (lastCmd.verb = "D" /\ lastCmd.mods = ModW) =>
             /\ LiveRtp # {} => Visited # {}
             /\ \A t \in Visited :
                   /\ t.weak[t.side] = 0 /\ t.strong = t.was.strong
                   /\ mem[t.sp].inuse <=> (t.strong = 1 \/ t.weak[0] = 1 \/ t.weak[1] = 1)

\* the datagrams the last pass received
RxEvents == { e \in PassEvents : e.kind = "rx" }

\* the session a datagram was received on (RTP or RTCP), before and after
EvPre(e) == IF e.pre.rtp.rtcp = e.sp THEN e.pre.rtcp ELSE e.pre.rtp
EvPost(e) == IF e.pre.rtp.rtcp = e.sp THEN e.post.rtcp ELSE e.post.rtp

\* C7: symmetric source authentication: on a side whose remote address is
\* known and which is symmetric, a received packet is accepted iff its source
\* equals the recorded address or canupdate of the side is set; one accepted
\* from another source through canupdate overwrites the recorded address
\* with its source and clears canupdate; any other packet is dropped: it is
\* not forwarded and changes nothing.  So (S2) once a side has learned its
\* address from traffic, which clears canupdate, a packet from a different
\* source is dropped.
C7_SymmetricAuth ==
    \A e \in RxEvents :
        LET m == EvPre(e) IN
        (m.addr[e.ridx] # NoAddr /\ m.asymmetric[e.ridx] = 0) =>
            /\ e.verdict \in {"accept", "drop"}
            /\ e.verdict = "accept" <=>
                 (e.src = m.addr[e.ridx] \/ m.canupdate[e.ridx] = 1)
            /\ (e.verdict = "accept" /\ e.src # m.addr[e.ridx]) =>
                 /\ EvPost(e).addr[e.ridx] = e.src
                 /\ EvPost(e).canupdate[e.ridx] = 0
            /\ e.verdict = "drop" => (e.sent = << >> /\ e.post = e.pre)

\* a side that learned its address from traffic has dropped a packet from
\* another source
C7_Witness ==
    \E e \in RxEvents :
        /\ EvPre(e).addr[e.ridx] = Addr2 /\ EvPre(e).asymmetric[e.ridx] = 0
        /\ EvPre(e).canupdate[e.ridx] = 0 /\ EvPre(e).pcount[e.ridx] > 0
        /\ e.src = Addr3 /\ e.verdict = "drop" /\ e.sent = << >>

\* a session record without its packet counters
NoCounters(r) == [r EXCEPT !.pcount = [k \in 0 .. 3 |-> 0]]

\* a session record without its packet counters, its ttl and the packets
\* its resizers hold
NoTraffic(r) ==
    [r EXCEPT !.pcount = [k \in 0 .. 3 |-> 0], !.ttl = 0,
              !.resizers = [i \in Sides |-> [r.resizers[i] EXCEPT !.queued = 0]]]

\* the packet comes from the recorded address of a side that has its
\* remote address set and canupdate cleared
SameSource(e) ==
    /\ EvPre(e).addr[e.ridx] # NoAddr
    /\ EvPre(e).canupdate[e.ridx] = 0
    /\ e.src = EvPre(e).addr[e.ridx]

\* C8 (as the code has it): for a side with its remote address set and
\* canupdate false, a further packet from the recorded address is accepted
\* and changes nothing in the session and its twin other than the packet
\* counters, the ttl of the RTP session (refreshed to max_ttl) and the
\* packets held by the resizer of that side: the addresses, canupdate and
\* everything else stay.
C8_LearningIdempotent ==
    \A e \in RxEvents :
        SameSource(e) =>
            /\ e.verdict = "accept"
            /\ NoTraffic(e.post.rtp) = NoTraffic(e.pre.rtp)
            /\ NoTraffic(e.post.rtcp) = NoTraffic(e.pre.rtcp)
            /\ e.post.rtp.ttl \in {e.pre.rtp.ttl, max_ttl}
            /\ e.post.rtcp.ttl = e.pre.rtcp.ttl

\* such a packet has been forwarded and has brought the ttl back to max_ttl
C8_Witness ==
    \E e \in RxEvents :
        /\ SameSource(e) /\ e.verdict = "accept" /\ e.sent # << >>
        /\ e.pre.rtp.ttl < max_ttl /\ e.post.rtp.ttl = max_ttl

\* C8 as stated: such a packet changes nothing in the session and its twin
\* other than the packet counters.
C8_AsStated ==
    \A e \in RxEvents :
        SameSource(e) =>
            /\ NoCounters(e.post.rtp) = NoCounters(e.pre.rtp)
            /\ NoCounters(e.post.rtcp) = NoCounters(e.pre.rtcp)

\* received minus relayed-or-dropped
Balance(m) == m.pcount[0] + m.pcount[1] - m.pcount[2] - m.pcount[3]

\* no resizer is enabled on either side of the session
NoResizer(m) == \A i \in Sides : m.resizers[i].output_nsamples <= 0

\* C9 (as the code has it): counter conservation: a session (RTP or RTCP)
\* is created with pcount[0] + pcount[1] = pcount[2] + pcount[3], and no
\* step taken while the session has no resizer enabled changes the
\* difference of the two sums: each packet counted as received is counted
\* exactly once as relayed or dropped.  (The packets a resizer takes and
\* the packets it gives back are counted separately.)
C9_CounterConservation ==
    [][\A s \in Ptrs :
          /\ (~mem[s].inuse /\ mem'[s].inuse) => Balance(mem'[s]) = 0
          /\ (mem[s].inuse /\ mem'[s].inuse /\ NoResizer(mem[s])) =>
                Balance(mem'[s]) = Balance(mem[s])]_vars

\* a packet received on a session without resizers has been counted as
\* received and as relayed
C9_Witness ==
    \E e \in RxEvents :
        /\ e.verdict = "accept" /\ NoResizer(EvPre(e)) /\ NoResizer(EvPost(e))
        /\ EvPost(e).pcount[e.ridx] = EvPre(e).pcount[e.ridx] + 1
        /\ EvPost(e).pcount[2] = EvPre(e).pcount[2] + 1
        /\ Balance(EvPost(e)) = 0

\* C9 as stated: for every session, whenever no packet is buffered in a
\* resizer, pcount[0] + pcount[1] = pcount[2] + pcount[3].
C9_AsStated ==
    \A s \in Live :
        (\A i \in Sides : mem[s].resizers[i].queued = 0) => Balance(mem[s]) = 0

\* C10 (as the code has it): RTP/RTCP port adjacency: for every session
\* pair and every side i that has been bound (fds[i] # -1),
\* rtcp.ports[i] = rtp.ports[i] + 1 (an unbound side has port 0 in both).
C10_PortAdjacency ==
    \A s \in LiveRtp : \A i \in Sides :
        IF mem[s].fds[i] # -1
        THEN mem[mem[s].rtcp].ports[i] = mem[s].ports[i] + 1
        ELSE mem[s].ports[i] = 0 /\ mem[mem[s].rtcp].ports[i] = 0

\* a pair with both sides bound, the callee side by a lookup command
C10_Witness ==
    \E s \in LiveRtp :
        /\ \A i \in Sides : mem[s].fds[i] # -1
        /\ mem[s].ports[1] # mem[s].ports[0]
        /\ lastCmd.verb = "L"

\* C10 as stated: for every session pair and every side i,
\* rtcp.ports[i] = rtp.ports[i] + 1.
C10_AsStated ==
    \A s \in LiveRtp : \A i \in Sides :
        mem[mem[s].rtcp].ports[i] = mem[s].ports[i] + 1

\* C11: port range: every local port held by a session (the port of a
\* bound side) is inside [port_min, port_max], the bounds as init_config
\* rounded them; the port of an RTP session is even, that of an RTCP
\* session odd.
C11_PortRange ==
    \A s \in Live : \A i \in Sides :
        mem[s].fds[i] # -1 =>
            /\ mem[s].ports[i] >= cf.port_min
            /\ mem[s].ports[i] <= cf.port_max
            /\ mem[s].ports[i] % 2 = (IF mem[s].rtcp # NULL THEN 0 ELSE 1)

\* the pair at the top of the range: RTP on port_max, RTCP beyond it
C11_Reached ==
    \E s \in LiveRtp :
        /\ mem[s].fds[0] # -1 /\ mem[s].ports[0] = cf.port_max
        /\ mem[mem[s].rtcp].fds[0] # -1
        /\ mem[mem[s].rtcp].ports[0] = cf.port_max + 1

\* the options -m 2 -M 5 gave the range (the shape of 10000..10003)
Range4 == cf.port_min = 2 /\ cf.port_max = 4

\* every session there is came from a U command that created it: none has
\* been removed and no L command has bound a second side
OnlyCreated ==
    /\ Cardinality(LiveRtp) = cf.sessions_created
    /\ \A s \in Live : mem[s].fds[1] = -1

\* the step is handle_command on a U command that matched no session
CreatingU ==
    /\ pc = "commands" /\ pc' = "cmd_done"
    /\ lastCmd'.verb = "U" /\ lastCmd'.touched = << >>

\* the step left the session table, the sessions, the sockets and the
\* allocator cursor as they were
TableKept == cf' = cf /\ mem' = mem /\ socks' = socks

\* the command was answered with a port and one more session was created
Created ==
    /\ Len(lastCmd'.replies) = 1 /\ lastCmd'.replies[1].t = "port"
    /\ cf'.sessions_created = cf.sessions_created + 1

\* C12 (as the code has it): port exhaustion: with the port range
\* configured as four ports (2..5, as 10000..10003), the U commands that
\* each create a new session succeed while fewer than two sessions exist,
\* and the next one (the third) replies E10, leaving the session table and
\* the allocator cursor unchanged.
C12_PortExhaustion ==
    [][(CreatingU /\ Range4 /\ OnlyCreated) =>
          IF cf.sessions_created < 2
          THEN Created
          ELSE lastCmd'.replies = << Reply("E", 10) >> /\ TableKept]_vars

\* the third creating U command has been answered E10
C12_Witness ==
    /\ Range4 /\ OnlyCreated /\ cf.sessions_created = 2
    /\ lastCmd.verb = "U" /\ lastCmd.replies = << Reply("E", 10) >>

\* C12 as stated: three U commands that each create a new session succeed
\* and the fourth replies E10, leaving the session table and the allocator
\* cursor unchanged.
C12_AsStated ==
    [][(CreatingU /\ Range4 /\ OnlyCreated) =>
          IF cf.sessions_created < 3
          THEN Created
          ELSE lastCmd'.replies = << Reply("E", 10) >> /\ TableKept]_vars

\* the command with call-id and tags key matches a session: the call-ids
\* are equal and the session's tag matches the from tag or the to tag
Matching(key) ==
    { s \in LiveRtp :
        /\ mem[s].call_id = key[1]
        /\ \/ compare_session_tags(mem[s].tag, key[2]) # 0
           \/ key[3] # NoTag /\ compare_session_tags(mem[s].tag, key[3]) # 0 }

\* the step is handle_command on a well-formed command with one of the
\* verbs, naming a call and tags that match no session
Unmatched(verbs) ==
    /\ pc = "commands" /\ pc' = "cmd_done"
    /\ lastCmd'.verb \in verbs /\ lastCmd'.nargs = "ok"
    /\ lastCmd'.verb \in {"D", "R", "S"} => lastCmd'.mods = << >>
    /\ Matching(lastCmd'.key) = {}

ErrorReply ==
    /\ pc = "commands" /\ pc' = "cmd_done"
    /\ Len(lastCmd'.replies) = 1 /\ lastCmd'.replies[1].t = "E"

\* C14: errors are contained: a command that ends with an E<code> reply
\* removes no session, and any socket pair bound while processing that
\* command is closed and not left in a session or in the poll set: the open
\* sockets, the sessions' descriptors and the poll set are as before the
\* command; the session table satisfies the poll-set lockstep invariant
\* afterwards.
C14_ErrorsContained ==
    [][ErrorReply =>
          /\ \A s \in Ptrs : mem[s].inuse => mem'[s].inuse
          /\ socks' = socks
          /\ \A s \in Ptrs : mem'[s].inuse = mem[s].inuse /\ mem'[s].fds = mem[s].fds
          /\ cf'.nsessions = cf.nsessions
          /\ cf'.pfds = cf.pfds /\ cf'.sessions = cf.sessions
          /\ C3_Lockstep']_vars

\* a U command has bound a socket pair (the allocator cursor has moved past
\* it), failed to allocate the session next to a live one, and closed the pair
C14_Witness ==
    /\ lastCmd.verb = "U" /\ Len(lastCmd.replies) = 1
    /\ lastCmd.replies[1].t = "E" /\ lastCmd.replies[1].v \in 11 .. 14
    /\ LiveRtp # {}
    /\ (cf.nextport[0] - 2) \notin socks /\ (cf.nextport[0] - 1) \notin socks
    /\ \A s \in Live : \A i \in Sides : mem[s].ports[i] # cf.nextport[0] - 2

\* C15: datagram cookie echo: in datagram control mode, every reply
\* datagram sent for a command that came with a cookie (success, E<code>,
\* V/VF result, each datagram of an I dump) begins with the cookie token of
\* the command it answers.
C15_CookieEcho ==
    (cf.umode # 0 /\ lastCmd.verb \notin {"-", ""}) =>
        \A k \in DOMAIN lastCmd.heads : lastCmd.heads[k] = lastCmd.cookie

\* an I dump of two datagrams has been sent for a command with a cookie
C15_Reached ==
    /\ cf.umode # 0 /\ lastCmd.verb = "I" /\ lastCmd.cookie = "c1"
    /\ Len(lastCmd.replies) = 2 /\ Len(lastCmd.heads) = 2
    /\ lastCmd.heads[1] = "c1"

\* the session p and its sockets are gone after the step, and the poll
\* slots its sockets had are invalidated
Reaped(p) ==
    /\ ~mem'[p].inuse
    /\ \A i \in Sides :
         mem[p].fds[i] # -1 =>
            /\ mem[p].fds[i] \notin socks'
            /\ cf'.sessions[mem[p].sidx[i]] = NULL
            /\ cf'.pfds[mem[p].sidx[i]] = -1

\* what a tick does to the RTP session s and its RTCP twin
Ticked(s) ==
    IF mem[s].ttl = 0
    THEN Reaped(s) /\ Reaped(mem[s].rtcp)
    ELSE /\ mem'[s] = [mem[s] EXCEPT !.ttl = @ - 1]
         /\ mem'[mem[s].rtcp] = mem[mem[s].rtcp]

\* C16: housekeeper step: at each tick every RTP session whose ttl is 0 is
\* removed together with its RTCP twin (their sockets closed, their poll
\* slots invalidated) and every other RTP session has its ttl decremented
\* by exactly 1 (each is visited once); an RTCP session's ttl is -1 and
\* stays so, and an RTCP session goes only with its RTP session.
C16_HousekeeperStep ==
    [][(AlarmHandler /\ fault' = "none") =>
          /\ \A s \in LiveRtp : Ticked(s)
          /\ \A r \in Live \ LiveRtp : mem[r].ttl = -1
          /\ \A r \in Ptrs : (mem'[r].inuse /\ mem'[r].rtcp = NULL) => mem'[r].ttl = -1]_vars

\* after a tick: one session has been counted down to 0 and is still
\* there, another one has been removed
C16_Witness ==
    /\ pc = "rtp" /\ fault = "none" /\ cf.sessions_created = 2
    /\ Cardinality(LiveRtp) = 1
    /\ \E s \in LiveRtp : mem[s].ttl = 0 /\ mem[mem[s].rtcp].ttl = -1

\* a quiet environment: no datagrams, and no U or L command for a call and
\* tags that match a session there is (such commands create sessions or
\* find none)
CmdsQuiet ==
    { Cmd(v, md, "ok", id, Addr1, tg, NoTag) :
        v \in {"U", "L"}, md \in {<< >>, ModW}, id \in {"abc", "xyz"},
        tg \in {TagA, TagB} }
QuietCommand ==
    ProcessCommand({ c \in CmdsQuiet :
                       Matching(<< c.call_id, c.from_tag, c.to_tag >>) = {} })
NextQuiet ==
    IdleRtp \/ EnterCommands \/ QuietCommand \/ CloseControl \/ AlarmHandler \/ NoAlarm

\* main()'s loop goes round, and housekeeper ticks keep occurring
SpecQuiet ==
    /\ Init /\ [][NextQuiet]_vars
    /\ WF_vars(IdleRtp) /\ WF_vars(EnterCommands) /\ WF_vars(CloseControl)
    /\ SF_vars(AlarmHandler)

\* a call that is offered and answered once, symmetric or asymmetric, and
\* then gets datagrams only: on each socket at most one that is accepted,
\* and after it only datagrams that source authentication rejects
CmdsSpoof ==
    { c \in CmdsAsym :
        LET M == Matching(<< c.call_id, c.from_tag, c.to_tag >>) IN
        \/ M = {}
        \/ c.verb = "L" /\ \A s \in M : mem[s].complete = 0 }
SpoofEnvs ==
    { env \in PassEnvs({Addr2, Addr3}, {"none"}, {FALSE}) :
        env.slot # 0 =>
            LET m == mem[cf.sessions[env.slot]]
                i == SlotSide(env.slot)
            IN  \/ \A k \in DOMAIN env.pkts : Unauthentic(m, i, env.pkts[k])
                \/ m.pcount[i] = 0 }
SpoofRtp == RtpPass(SpoofEnvs)
SpoofCommand == ProcessCommand(CmdsSpoof)
NextSpoof ==
    SpoofRtp \/ EnterCommands \/ SpoofCommand \/ CloseControl \/ AlarmHandler \/ NoAlarm

\* main()'s loop goes round, and housekeeper ticks keep occurring
SpecSpoof ==
    /\ Init /\ [][NextSpoof]_vars
    /\ WF_vars(SpoofRtp) /\ WF_vars(EnterCommands) /\ WF_vars(CloseControl)
    /\ SF_vars(AlarmHandler)

Restarted ==
    IF pc = "cmd_done" /\ lastCmd.verb \in {"U", "L"} /\ lastCmd.end = "writeport"
    THEN Visited ELSE {}

\* C18: ttl refresh via the twin: every packet accepted on an RTP or an
\* RTCP socket sets the ttl of the RTP session of that pair to max_ttl and
\* leaves the ttl of the RTCP session at -1; a matched U or L command also
\* sets the ttl of the RTP session to max_ttl.
C18_TtlRefresh ==
    /\ \A e \in RxEvents :
          e.verdict = "accept" =>
              /\ e.post.rtp.ttl = max_ttl
              /\ e.post.rtcp.ttl = -1
    /\ \A t \in Restarted :
          /\ mem[t.sp].ttl = max_ttl
          /\ mem[mem[t.sp].rtcp].ttl = -1

\* a packet was accepted and taken by the resizer of its side, and the ttl
\* of the RTP session is what it was, below max_ttl
C18_Reached ==
    \E e \in RxEvents :
        /\ e.verdict = "accept" /\ e.sent = << >>
        /\ EvPost(e).resizers[e.ridx].queued = EvPre(e).resizers[e.ridx].queued + 1
        /\ e.pre.rtp.ttl < max_ttl /\ e.post.rtp.ttl = e.pre.rtp.ttl
        /\ e.post.rtcp.ttl = -1

\* the datagrams of the last pass that source authentication rejected
Rejected == { e \in RxEvents : e.verdict = "drop" }

\* C19 (as the code has it): a datagram received on a session socket that
\* source authentication rejects (symmetric mismatch with canupdate false,
\* or asymmetric host mismatch) is discarded without being counted: it
\* increments no counter of the session, neither the received counters
\* pcount[0], pcount[1] nor the dropped counter pcount[3], is not forwarded,
\* and leaves the session and its twin as they were.  pcount[3] counts
\* accepted packets that could not be forwarded.
C19_RejectedUncounted ==
    /\ \A e \in RxEvents :
          (e.verdict = "drop") <=> Unauthentic(EvPre(e), e.ridx, e.src)
    /\ \A e \in Rejected :
          /\ EvPost(e).pcount = EvPre(e).pcount
          /\ e.sent = << >>
          /\ e.post = e.pre
    /\ \A e \in RxEvents :
          (e.verdict = "accept"
             /\ EvPost(e).pcount[3] = EvPre(e).pcount[3] + 1) =>
                /\ e.sent = << >>
                /\ EvPost(e).pcount[e.ridx] = EvPre(e).pcount[e.ridx] + 1

\* an asymmetric side that had accepted packets has met a datagram from
\* another host, and has rejected it
C19_Witness ==
    \E e \in Rejected :
        /\ EvPre(e).asymmetric[e.ridx] = 1
        /\ EvPre(e).addr[e.ridx] # NoAddr
        /\ ~ishostseq(EvPre(e).addr[e.ridx], e.src)
        /\ EvPre(e).pcount[e.ridx] > 0
        /\ EvPost(e).pcount = EvPre(e).pcount

\* C19 as stated: every datagram received on a session socket that is
\* rejected by source authentication increments that session's dropped
\* counter pcount[3].
C19_AsStated ==
    \A e \in Rejected : EvPost(e).pcount[3] = EvPre(e).pcount[3] + 1

\* the side the datagram came in on has its remote address set and is
\* asymmetric
AsymSide(e) ==
    /\ EvPre(e).addr[e.ridx] # NoAddr
    /\ EvPre(e).asymmetric[e.ridx] # 0

\* C20: asymmetric source authentication: for a side whose remote address
\* is known and which is asymmetric, a received packet is accepted iff its
\* source host equals the recorded host (the source port is ignored), and
\* accepting it never changes the recorded remote address or canupdate of
\* that side.
C20_AsymmetricAuth ==
    \A e \in RxEvents :
        AsymSide(e) =>
            /\ e.verdict \in {"accept", "drop"}
            /\ e.verdict = "accept" <=> ishostseq(EvPre(e).addr[e.ridx], e.src)
            /\ e.verdict = "accept" =>
                 /\ EvPost(e).addr[e.ridx] = EvPre(e).addr[e.ridx]
                 /\ EvPost(e).canupdate[e.ridx] = EvPre(e).canupdate[e.ridx]

\* an asymmetric side has accepted and forwarded a packet that came from
\* the recorded host on another port, and has kept the recorded address
C20_Witness ==
    \E e \in RxEvents :
        /\ AsymSide(e) /\ e.verdict = "accept" /\ e.sent # << >>
        /\ e.src # EvPre(e).addr[e.ridx]
        /\ ishostseq(EvPre(e).addr[e.ridx], e.src)
        /\ EvPost(e).addr[e.ridx] = EvPre(e).addr[e.ridx]
        /\ EvPost(e).pcount[e.ridx] = EvPre(e).pcount[e.ridx] + 1

\* the datagram came in on the RTCP session of its pair
OnRtcp(e) == e.pre.rtp.rtcp = e.sp

\* the side the datagram came in on has no remote address yet
UnknownSide(e) == EvPre(e).addr[e.ridx] = NoAddr

\* the RTCP twin of the session has, for the side of the datagram, no
\* address or one on another host than the datagram's source
TwinToGuess(e) ==
    \/ e.pre.rtcp.addr[e.ridx] = NoAddr
    \/ ~ishostseq(e.pre.rtcp.addr[e.ridx], e.src)

\* C21: first-packet learning: a packet that arrives on a side whose remote
\* address is unknown is accepted (the one other outcome is the failed
\* allocation of the address, which removes the pair), the remote address
\* of that side becomes the packet's source and canupdate becomes false; if
\* the session is the RTP one and its RTCP twin's address for that side is
\* unknown or has a different host, the twin's address becomes (same host,
\* source port + 1) and the twin's canupdate becomes NOT asymmetric, else
\* the twin keeps both; learning on an RTCP session never changes the RTP
\* session's address.
C21_FirstPacketLearning ==
    \A e \in RxEvents :
        UnknownSide(e) =>
            /\ e.verdict \in {"accept", "nomem"}
            /\ e.verdict = "nomem" => e.post = GonePair
            /\ e.verdict = "accept" =>
                 /\ EvPost(e).addr[e.ridx] = e.src
                 /\ EvPost(e).canupdate[e.ridx] = 0
                 /\ (~OnRtcp(e) /\ TwinToGuess(e)) =>
                       /\ e.post.rtcp.addr[e.ridx] = Sa(e.src.h, e.src.p + 1)
                       /\ e.post.rtcp.canupdate[e.ridx] =
                             NOT(e.pre.rtcp.asymmetric[e.ridx])
                 /\ (~OnRtcp(e) /\ ~TwinToGuess(e)) =>
                       /\ e.post.rtcp.addr[e.ridx] = e.pre.rtcp.addr[e.ridx]
                       /\ e.post.rtcp.canupdate[e.ridx] = e.pre.rtcp.canupdate[e.ridx]
                 /\ OnRtcp(e) =>
                       /\ e.post.rtp.addr = e.pre.rtp.addr
                       /\ e.post.rtp.canupdate = e.pre.rtp.canupdate

\* the first RTP packet of a side whose RTCP twin had learned an address on
\* another host: the twin's address is replaced by the guess
C21_Witness ==
    \E e \in RxEvents :
        /\ UnknownSide(e) /\ ~OnRtcp(e) /\ e.verdict = "accept"
        /\ e.pre.rtcp.addr[e.ridx] # NoAddr
        /\ ~ishostseq(e.pre.rtcp.addr[e.ridx], e.src)
        /\ e.post.rtp.addr[e.ridx] = e.src
        /\ e.post.rtcp.addr[e.ridx] = Sa(e.src.h, e.src.p + 1)

\* the datagrams of the last pass that were accepted and given to
\* send_packet (no resizer is enabled on their side)
Forwarded ==
    { e \in RxEvents :
        e.verdict = "accept" /\ EvPre(e).resizers[e.ridx].output_nsamples <= 0 }

\* the other side
Peer(ridx) == IF ridx = 0 THEN 1 ELSE 0

\* send_packet has nowhere to send to: the address of the other side is
\* unknown, or a prompt player is active there on the RTP session
NoTarget(e) ==
    \/ EvPre(e).addr[Peer(e.ridx)] = NoAddr
    \/ e.pre.rtp.rtps[Peer(e.ridx)] # NULL

AnsweredUL ==
    /\ pc = "commands" /\ pc' = "cmd_done"
    /\ lastCmd'.verb \in {"U", "L"} /\ lastCmd'.end = "writeport"

\* the session such a step matched with the side it pre-fills (the one
\* opposite to the side it matched on), or the session it created with
\* side 1
Prefilled ==
    IF lastCmd'.touched # << >>
    THEN { [sp |-> lastCmd'.touched[k].sp,
            pidx |-> Peer(lastCmd'.touched[k].side)] : k \in DOMAIN lastCmd'.touched }
    ELSE { [sp |-> s, pidx |-> 1] :
             s \in { p \in Ptrs : ~mem[p].inuse /\ mem'[p].inuse /\ mem'[p].rtcp # NULL } }

\* the asymmetric flag the command asks for
Requested == ParseMods(lastCmd'.mods, NoMods).asymmetric

\* C23: command address pre-fill and re-arm: a matched or creating U/L
\* command with a resolvable non-null address leaves the side it targets
\* with that address as remote address (replacing the recorded one if and
\* only if it differs) and the RTCP twin with the same host and port + 1
\* under the same rule, and always sets asymmetric of that side to the
\* requested value and canupdate to NOT asymmetric on both the RTP and the
\* RTCP session, so that a re-offer re-arms learning; a command without
\* such an address leaves the recorded addresses as they are.
C23_PrefillRearm ==
    [][AnsweredUL =>
         \A x \in Prefilled :
            LET a == lastCmd'.addr
                r == mem'[x.sp].rtcp
            IN  /\ mem'[x.sp].asymmetric[x.pidx] = Requested
                /\ mem'[r].asymmetric[x.pidx] = Requested
                /\ mem'[x.sp].canupdate[x.pidx] = NOT(Requested)
                /\ mem'[r].canupdate[x.pidx] = NOT(Requested)
                /\ IF a # NoAddr
                   THEN /\ mem'[x.sp].addr[x.pidx] = a
                        /\ mem'[r].addr[x.pidx] = Sa(a.h, a.p + 1)
                   ELSE /\ mem'[x.sp].addr[x.pidx] = mem[x.sp].addr[x.pidx]
                        /\ mem'[r].addr[x.pidx] = mem[r].addr[x.pidx]]_vars

\* a session that has counted packets from the caller has been offered
\* again: side 1 has the offered address, its twin the port above, and
\* canupdate is set
C23_Witness ==
    /\ pc = "cmd_done" /\ lastCmd.verb = "U" /\ lastCmd.end = "writeport"
    /\ lastCmd.addr = Addr1 /\ lastCmd.mods = << >>
    /\ \E t \in Visited :
          /\ mem[t.sp].pcount[1] > 0
          /\ mem[t.sp].addr[1] = Addr1 /\ mem[t.sp].canupdate[1] = 1
          /\ mem[mem[t.sp].rtcp].addr[1] = Sa(1, 5001)

\* a step of handle_command on a well-formed command of the given verb
StepOf(verb) ==
    /\ pc = "commands" /\ pc' = "cmd_done"
    /\ lastCmd'.verb = verb /\ lastCmd'.nargs = "ok"

\* the RTP sessions, before the step, of the call the command names whose
\* tag is one of the command's tags followed by ";N"
MediaMatches ==
    { s \in LiveRtp :
        /\ mem[s].call_id = lastCmd'.key[1]
        /\ \/ compare_session_tags(mem[s].tag, lastCmd'.key[2]) = 2
           \/ /\ lastCmd'.key[3] # NoTag
              /\ compare_session_tags(mem[s].tag, lastCmd'.key[3]) = 2 }

\* C24: multi-media delete: a D command whose tag matches sessions of the
\* call by the media-number rule (session tag == tag + ';' + N) removes
\* every such session of that call whose last hold it clears, not only the
\* first one found in slot order, and replies 0 once.
C24_MultiMediaDelete ==
    [][(StepOf("D") /\ MediaMatches # {}) =>
          /\ \A s \in MediaMatches :
                (mem[s].weak[0] = 0 /\ mem[s].weak[1] = 0) => ~mem'[s].inuse
          /\ lastCmd'.replies = << Reply("ok", 0) >>]_vars

\* a D command for the tag a met the streams a;1 and a;2, removed one and
\* never got to its reply
C24_Reached ==
    /\ pc = "cmd_done" /\ fault = "hang"
    /\ lastCmd.verb = "D" /\ lastCmd.key = << "abc", TagA, NoTag >>
    /\ lastCmd.replies = << >>
    /\ \E t \in Visited : t.removed /\ ~mem[t.sp].inuse
    /\ \E s \in LiveRtp : mem[s].tag \in {TagA1, TagA2} /\ mem[s].weak[0] = 1

\* the side of session s that a command other than U matches through the
\* tag it names
MatchedSide(s) ==
    IF compare_session_tags(mem[s].tag, lastCmd'.key[2]) # 0 THEN 1 ELSE 0

\* C25: multi-media stop: an S command whose tag matches sessions of the
\* call by the media-number rule stops the prompt player on every matching
\* session of that call (it continues iterating instead of stopping at the
\* first hit).
C25_MultiMediaStop ==
    [][(StepOf("S") /\ MediaMatches # {}) =>
          \A s \in MediaMatches : mem'[s].rtps[MatchedSide(s)] = NULL]_vars

\* an S command for the tag a was answered 0 while the streams a;1 and a;2
\* were there: one of them has no player, the other is still playing
C25_Reached ==
    /\ pc = "cmd_done" /\ fault = "none"
    /\ lastCmd.verb = "S" /\ lastCmd.key = << "abc", TagA, NoTag >>
    /\ lastCmd.replies = << Reply("ok", 0) >>
    /\ \E s, t \in LiveRtp :
          /\ mem[s].tag = TagA1 /\ mem[t].tag = TagA2
          /\ mem[s].rtps[1] = NULL /\ mem[s].sridx = -1
          /\ mem[t].rtps[1] # NULL /\ mem[t].sridx # -1

\* the indices of the scheduler list
ServerSlots == 0 .. (cf.rtp_nsessions - 1)

\* session s has a prompt player on one side at least
Playing(s) == mem[s].rtps[0] # NULL \/ mem[s].rtps[1] # NULL

\* C26: scheduler-list consistency: after any sequence of P and S commands,
\* player end-of-stream events, session removals and scheduler compaction
\* passes, every non-null entry of the scheduler list is a live session
\* with at least one non-null player whose sridx is that entry's index, and
\* every live session with a non-null player appears in the list exactly
\* once.
C26_SchedulerList ==
    /\ \A j \in ServerSlots :
          cf.rtp_servers[j] # NULL =>
              /\ mem[cf.rtp_servers[j]].inuse
              /\ Playing(cf.rtp_servers[j])
              /\ mem[cf.rtp_servers[j]].sridx = j
    /\ \A s \in Live :
          Playing(s) => Cardinality({ j \in ServerSlots : cf.rtp_servers[j] = s }) = 1
    /\ \A s \in Live : ~Playing(s) => mem[s].sridx = -1

\* the list holds a null entry left by a player that was stopped, ended or
\* removed (until the next pass compacts it away), and behind it, at index
\* 1, the one session that is playing
C26_Witness ==
    /\ cf.rtp_nsessions = 2 /\ cf.rtp_servers[0] = NULL
    /\ cf.rtp_servers[1] # NULL /\ mem[cf.rtp_servers[1]].sridx = 1
    /\ Cardinality({ s \in Live : Playing(s) }) = 1

\* C27: bounded poll set: for any sequence of commands (including several
\* create/delete commands handled in one command-processing batch, before
\* the next forwarder pass), packets and ticks, the number of used slots
\* nsessions never exceeds the capacity allocated for sessions[] and pfds[],
\* 2*(port_max - port_min + 1) + 1, and no entry is stored beyond it;
\* likewise rtp_nsessions never exceeds the capacity of rtp_servers[].
\* (fault = "overflow" is append_session or append_server storing at an
\* index that is not below the capacity.)
C27_BoundedPollSet ==
    /\ fault # "overflow"
    /\ cf.nsessions <= Slots(cf)
    /\ cf.rtp_nsessions <= Slots(cf)

\* all slots are used up, the session that used them has been deleted in
\* this batch, and the next U stores its session past the end of sessions[]
C27_Reached ==
    /\ fault = "overflow" /\ lastCmd.verb = "U"
    /\ cf.nsessions = Slots(cf)
    /\ \A i \in 1 .. (cf.nsessions - 1) : cf.sessions[i] = NULL /\ cf.pfds[i] = -1
    /\ Live = {}

\* the command of this step called create_listener, and its effects were
\* stored within the tables
Allocating ==
    /\ pc = "commands" /\ pc' = "cmd_done"
    /\ lastCmd'.probes # << >> /\ fault' # "overflow"

\* the even ports of the range
EvenPorts == { p \in cf.port_min .. cf.port_max : p % 2 = 0 }

\* where the allocation of this step starts
StartPort ==
    IF cf.nextport[0] < cf.port_min \/ cf.nextport[0] > cf.port_max
    THEN cf.port_min ELSE cf.nextport[0]

\* both p and p + 1 can be bound as this step begins
CanBind(p) ==
    {p, p + 1} \cap (socks \cup lastCmd'.busy \cup lastCmd'.errs) = {}

\* p or p + 1 is in use (or not accessible)
Taken(p) == {p, p + 1} \cap (socks \cup lastCmd'.busy) # {}

\* the probe of p meets an error other than address-in-use and access:
\* socket() fails, or bind() does on a port that is not in use
Errored(p) ==
    \/ lastCmd'.oserr
    \/ \E q \in {p, p + 1} \cap lastCmd'.errs :
         \A r \in p .. q : r \notin socks \cup lastCmd'.busy

\* the ports an allocation probes, in order
ProbeOrder(pr) ==
    /\ pr[1] = StartPort
    /\ \A k \in 1 .. (Len(pr) - 1) :
         pr[k + 1] = IF pr[k] >= cf.port_max THEN cf.port_min ELSE pr[k] + 2
    /\ \A k \in 1 .. Len(pr) : pr[k] \in EvenPorts
    /\ \A k, l \in 1 .. Len(pr) : pr[k] = pr[l] => k = l

\* C28: port allocator revolution: an allocation starts at the cursor (reset
\* to port_min if outside the range), probes even ports in increasing order
\* wrapping from port_max to port_min, probes each even port of the range at
\* most once and terminates; it succeeds with the first probed p for which
\* both p and p + 1 can be bound and then sets the cursor to p + 2; it fails,
\* leaving no socket open and the cursor unchanged, only when no even port
\* of the range is free or socket() or bind() fails with another error than
\* address-in-use and access.
C28_AllocatorRevolution ==
    [][Allocating =>
        LET pr   == lastCmd'.probes
            last == pr[Len(pr)]
        IN  /\ ProbeOrder(pr)
            /\ \A k \in 1 .. (Len(pr) - 1) : ~CanBind(pr[k])
            /\ IF lastCmd'.end = "writeport"
               THEN /\ CanBind(last) /\ ~lastCmd'.oserr
                    /\ socks' = socks \cup {last, last + 1}
                    /\ cf'.nextport[0] = last + 2
               ELSE /\ lastCmd'.end = "goterror"
                    /\ socks' = socks /\ cf'.nextport = cf.nextport
                    /\ \/ \A p \in EvenPorts : Taken(p)
                       \/ Errored(last)]_vars

\* an allocation went round: it began above port_min, skipped pairs that
\* were taken, wrapped to port_min and bound a pair below its start
C28_Witness ==
    /\ pc = "cmd_done" /\ lastCmd.end = "writeport"
    /\ Len(lastCmd.probes) >= 3
    /\ lastCmd.probes[Len(lastCmd.probes)] < lastCmd.probes[1]
    /\ cf.nextport[0] = lastCmd.probes[Len(lastCmd.probes)] + 2

\* C29: delete terminates: processing a single D command always terminates
\* and reaches its reply, for every layout of the session table, including
\* when the matched session keeps a weak hold after its strong hold is
\* cleared and is stored at any slot index: the scan of handle_command
\* never comes back to a slot in the state it left it in.
C29_DeleteTerminates ==
    /\ fault # "hang"
    /\ (pc = "cmd_done" /\ lastCmd.verb = "D") => lastCmd.end # "loops"

\* a D without modifiers met a session of its call that keeps a weak hold,
\* and the scan came back to the slot of that session with nothing changed
C29_Reached ==
    /\ pc = "cmd_done" /\ fault = "hang"
    /\ lastCmd.verb = "D" /\ lastCmd.mods = << >> /\ lastCmd.end = "loops"
    /\ \E s \in Live :
         /\ mem[s].call_id = lastCmd.key[1] /\ mem[s].rtcp # NULL
         /\ mem[s].strong = 0 /\ mem[s].weak # [i \in Sides |-> 0]

\* the two sessions of the pair the event's datagram arrived on
PairIds(e) ==
    { e.sp, IF EvPre(e).rtcp # NULL THEN EvPre(e).rtcp ELSE EvPre(e).rtp }

\* C30: no use of a removed session in the forwarder: when receiving on a
\* session socket removes the session pair because memory for a learned
\* remote address cannot be allocated, no field of the removed RTP session
\* or its RTCP twin is read or written afterwards in the same forwarder
\* pass, and the remaining slots of that pair are skipped (the pass ends
\* with no slot of the table naming one of the two).
\* (fault = "uaf" is process_rtp acting on what it read from the freed
\* session.)
C30_NoUseAfterRemove ==
    pc = "poll_cmd" =>
        \A e \in RxEvents : e.verdict = "nomem" =>
            /\ fault # "uaf"
            /\ \A i \in 1 .. (cf.nsessions - 1) : cf.sessions[i] \notin PairIds(e)

\* a datagram arrived on a side without a remote address, malloc() failed,
\* the pair was removed and freed, and process_rtp went on to read the
\* resizer of the session it had just served
C30_Reached ==
    /\ pc = "poll_cmd" /\ fault = "uaf"
    /\ \E e \in RxEvents :
         /\ e.verdict = "nomem" /\ EvPre(e).addr[e.ridx] = NoAddr
         /\ \A s \in PairIds(e) : mem[s] = FreeObj

\* what datagrams change on a session: the counters, the remote addresses,
\* the canupdate flags and the ttl
Traffic(m) == << m.pcount, m.addr, m.canupdate, m.ttl >>

\* both sockets of session s are bound
BothBound(m) == m.fds[0] # -1 /\ m.fds[1] # -1

\* the other session of the pair of s
TwinOf(m) == IF m.rtcp # NULL THEN m.rtcp ELSE m.rtp

\* C31: incomplete sessions carry no traffic: while a session is not
\* complete no datagram is received from its sockets, so every step that is
\* not a command or a tick leaves the session allocated and its counters,
\* remote addresses, canupdate flags and ttl as they were; and complete is
\* set only when fds[0] and fds[1] are both bound on the RTP session and on
\* its RTCP twin.
C31_IncompleteQuiet ==
    [][/\ pc # "commands" =>
            \A s \in Live : mem[s].complete = 0 =>
                mem'[s].inuse /\ Traffic(mem'[s]) = Traffic(mem[s])
       /\ \A k \in DOMAIN lastPass' :
            lastPass'[k].kind = "rx" =>
                lastPass'[k].pre.rtp.complete # 0 /\ lastPass'[k].pre.rtcp.complete # 0
       /\ \A s \in Ptrs : (mem'[s].inuse /\ mem'[s].complete # 0) =>
            BothBound(mem'[s]) /\ BothBound(mem'[TwinOf(mem'[s])])]_vars

\* datagrams were waiting on the socket of a session that had not been
\* answered; the pass left them there, and the session has counted nothing
\* and learned no address
C31_Witness ==
    /\ pc = "poll_cmd" /\ fault = "none"
    /\ \E e \in PassEvents :
         /\ e.kind = "skip" /\ e.pre.rtp.complete = 0
         /\ mem[e.sp].inuse /\ mem[e.sp].complete = 0
         /\ mem[e.sp].fds[1] = -1
         /\ mem[e.sp].addr[0] = NoAddr
         /\ mem[e.sp].pcount = [k \in 0 .. 3 |-> 0]

\* what a datagram may redirect or keep alive: the ttl, the remote
\* addresses, the canupdate and the asymmetric flags
Frame(m) == << m.ttl, m.addr, m.canupdate, m.asymmetric >>

\* the last pass received datagrams and source authentication rejected
\* every one of them
OnlyRejected(log) ==
    log # << >> /\ \A k \in DOMAIN log : log[k].kind = "rx" /\ log[k].verdict = "drop"

\* C32: unauthenticated traffic cannot keep a session alive or redirect it:
\* a datagram rejected by source authentication leaves the ttl, the remote
\* addresses, the canupdate and the asymmetric flags of the pair unchanged
\* and causes nothing to be sent (a pass that receives only such datagrams
\* leaves every session allocated and these fields as they were), so a
\* session that receives only rejected packets still times out: with
\* housekeeper ticks occurring again and again it is eventually removed.
C32_SpoofedTraffic ==
    /\ \A p \in Ptrs : (mem[p].inuse ~> ~mem[p].inuse)
    /\ [][pc = "rtp" =>
            /\ \A k \in DOMAIN lastPass' :
                 lastPass'[k].verdict = "drop" =>
                    /\ Frame(lastPass'[k].post.rtp) = Frame(lastPass'[k].pre.rtp)
                    /\ Frame(lastPass'[k].post.rtcp) = Frame(lastPass'[k].pre.rtcp)
                    /\ lastPass'[k].sent = << >>
            /\ OnlyRejected(lastPass') =>
                 \A s \in Live : mem'[s].inuse /\ Frame(mem'[s]) = Frame(mem[s])]_vars

\* a complete session whose ttl a tick had brought to 0 got a datagram on
\* its RTP socket, the datagram was rejected, and the ttl is still 0: the
\* next tick removes the session
C32_Witness ==
    /\ pc = "poll_cmd" /\ fault = "none" /\ OnlyRejected(lastPass)
    /\ \E e \in Rejected :
         /\ e.pre.rtp.complete = 1 /\ e.pre.rtp.ttl = 0
         /\ mem[e.sp].inuse /\ mem[e.sp].rtcp # NULL /\ mem[e.sp].ttl = 0

====
